---- MODULE Spec2Model ----
(***************************************************************************)
(* Model of src/index.tsx: a single-page React front end that keeps image  *)
(* folders in a repository of a source-control hosting service.            *)
(*                                                                         *)
(* State: the React state slices of the App component, the two values in   *)
(* the browser's local storage, the remote repository tree, and the bag of *)
(* asynchronous handler invocations that are suspended at an await on a    *)
(* remote call.  Every handler is written with the values its closure      *)
(* captured at the render it was created in; a functional update           *)
(* (setX(prev => ...)) reads the current state instead.                    *)
(*                                                                         *)
(* One step of the model is one turn of the event loop: a user event with  *)
(* the state updates and effects it triggers, or the completion of one     *)
(* remote call of a suspended handler (the remote's reaction and the       *)
(* continuation up to the next await) with the effects it triggers.        *)
(***************************************************************************)
EXTENDS Integers, Sequences, FiniteSets, Bags, TLC

(***************************************************************************)
(* Bounds of the model.                                                    *)
(***************************************************************************)
\* At most this many handler invocations are suspended at the same time.
MaxTasks == 3

\* A run holds at most this many user events.
MaxOps == 4

\* A run with uploads holds at most this many user events.
MaxUploadOps == 2

\* A run of folder operations one after the other holds at most this many
\* user events.
MaxFolderOps == 4

\* A run with overlapping deletes holds at most this many user events.
MaxDeleteOps == 6

\* The user events of a run of the gallery with its dialogs.
MaxImageOps == 4

\* The most images a folder of the paginated gallery holds, the latest
\* commit date of the images that are sorted, and the user events of a run
\* of the gallery controls.
MaxImages == 17
MaxDate == 3
MaxViewOps == 3

\* The longest folder name typed, character by character, and the user
\* events of a run that types folder names.
MaxNameLen == 3
MaxNameOps == 1

\* The user events of a run that turns pages, changes folder and uploads.
MaxReloadOps == 3

\* The user events of a run that deletes or renames a folder of three files.
MaxLoopOps == 3

\* The user events of a run over a gallery of two pages with its viewer and
\* its image delete.
MaxGalleryOps == 3

(***************************************************************************)
(* Program constants.                                                      *)
(***************************************************************************)
IMAGES_PER_PAGE == 15

\* JavaScript's null for a string-valued slot.
Null == "<null>"

\* An optional folder name is a sequence of zero or one names: <<>> is null.
None == <<>>
Some(x) == <<x>>

(***************************************************************************)
(* Characters and strings.  A string is a sequence of characters; a        *)
(* character is written as itself when it is ASCII and by a name           *)
(* otherwise: "y_grave" is U+1EF3, "i_hook" is U+1EC9, "e_grave" is        *)
(* U+00E8, "dstroke" is U+0111, "Dstroke" is U+0110, "comb_grave" is       *)
(* U+0300 and "comb_hook" is U+0309.                                       *)
(***************************************************************************)
Digits == {"0", "1", "2", "3", "4", "5", "6", "7", "8", "9"}

LowerLetters ==
    {"a", "b", "c", "d", "e", "f", "g", "h", "i", "j", "k", "l", "m",
     "n", "o", "p", "q", "r", "s", "t", "u", "v", "w", "x", "y", "z"}

\* The characters the last replace of sanitizeFolderName keeps: [a-z0-9-].
AllowedChars == LowerLetters \cup Digits \cup {"-"}

\* The combining marks the first replace removes: U+0300 to U+036F.
CombiningMarks == {"comb_grave", "comb_hook"}

WhiteSpace == {" "}

\* String.prototype.toLowerCase, one character.
ToLowerChar(c) ==
    CASE c = "A" -> "a" [] c = "B" -> "b" [] c = "C" -> "c" [] c = "D" -> "d"
      [] c = "E" -> "e" [] c = "F" -> "f" [] c = "G" -> "g" [] c = "H" -> "h"
      [] c = "I" -> "i" [] c = "J" -> "j" [] c = "K" -> "k" [] c = "L" -> "l"
      [] c = "M" -> "m" [] c = "N" -> "n" [] c = "O" -> "o" [] c = "P" -> "p"
      [] c = "Q" -> "q" [] c = "R" -> "r" [] c = "S" -> "s" [] c = "T" -> "t"
      [] c = "U" -> "u" [] c = "V" -> "v" [] c = "W" -> "w" [] c = "X" -> "x"
      [] c = "Y" -> "y" [] c = "Z" -> "z"
      [] c = "Dstroke" -> "dstroke"
      [] c = "Y_grave" -> "y_grave"
      [] c = "E_grave" -> "e_grave"
      [] OTHER -> c

\* A variant of NFDChar that decomposes nothing.
NFDCharNone(c) == <<c>>

\* String.prototype.normalize('NFD'), one character: the canonical
\* decomposition.  U+0111 has none.
NFDChar(c) ==
    CASE c = "y_grave" -> <<"y", "comb_grave">>
      [] c = "Y_grave" -> <<"Y", "comb_grave">>
      [] c = "i_hook" -> <<"i", "comb_hook">>
      [] c = "e_grave" -> <<"e", "comb_grave">>
      [] c = "E_grave" -> <<"E", "comb_grave">>
      [] OTHER -> <<c>>

RECURSIVE MapChars(_, _)
MapChars(s, stage) ==
    IF s = <<>> THEN <<>>
    ELSE LET c == Head(s)
             out == CASE stage = "lower" -> <<ToLowerChar(c)>>
                      [] stage = "nfd" -> NFDChar(c)
                      [] stage = "marks" -> IF c \in CombiningMarks THEN <<>> ELSE <<c>>
                      [] stage = "dstroke" -> IF c = "dstroke" THEN <<"d">> ELSE <<c>>
                      [] OTHER -> IF c \in AllowedChars THEN <<c>> ELSE <<>>
         IN out \o MapChars(Tail(s), stage)

\* A variant of sanitizeFolderName without its last replace.
sanitizeFolderNameUnfiltered(name) ==
    MapChars(MapChars(MapChars(MapChars(name, "lower"), "nfd"), "marks"), "dstroke")

sanitizeFolderName(name) ==
    MapChars(MapChars(MapChars(MapChars(MapChars(name, "lower"), "nfd"),
                               "marks"), "dstroke"), "allowed")

\* String.prototype.trim.
RECURSIVE TrimLeft(_)
TrimLeft(s) ==
    IF s # <<>> /\ Head(s) \in WhiteSpace THEN TrimLeft(Tail(s)) ELSE s

RECURSIVE TrimRight(_)
TrimRight(s) ==
    IF s # <<>> /\ s[Len(s)] \in WhiteSpace
    THEN TrimRight(SubSeq(s, 1, Len(s) - 1)) ELSE s

Trim(s) == TrimRight(TrimLeft(s))

\* The code unit order of the characters a folder name is made of.
CharOrder ==
    <<"-", "0", "1", "2", "3", "4", "5", "6", "7", "8", "9",
      "a", "b", "c", "d", "e", "f", "g", "h", "i", "j", "k", "l", "m",
      "n", "o", "p", "q", "r", "s", "t", "u", "v", "w", "x", "y", "z">>

CharCode(c) == CHOOSE i \in 1..Len(CharOrder) : CharOrder[i] = c

\* a < b for strings, as Array.prototype.sort and the remote's listing
\* order them.
RECURSIVE NameLess(_, _)
NameLess(a, b) ==
    IF b = <<>> THEN FALSE
    ELSE IF a = <<>> THEN TRUE
    ELSE IF Head(a) = Head(b) THEN NameLess(Tail(a), Tail(b))
    ELSE CharCode(Head(a)) < CharCode(Head(b))

RECURSIVE InsertName(_, _)
InsertName(x, s) ==
    IF s = <<>> THEN <<x>>
    ELSE IF NameLess(x, Head(s)) THEN <<x>> \o s
    ELSE <<Head(s)>> \o InsertName(x, Tail(s))

\* Array.prototype.sort() without a comparator, on an array of names.
RECURSIVE SortNames(_)
SortNames(s) ==
    IF s = <<>> THEN <<>> ELSE InsertName(Head(s), SortNames(Tail(s)))

RECURSIVE SetToSortedNames(_)
SetToSortedNames(S) ==
    IF S = {} THEN <<>>
    ELSE LET x == CHOOSE y \in S : \A z \in S : z = y \/ NameLess(y, z)
         IN <<x>> \o SetToSortedNames(S \ {x})

Range(s) == {s[i] : i \in 1..Len(s)}

\* Array.prototype.includes.
Includes(s, x) == x \in Range(s)

\* Array.prototype.filter(f => f !== x).
RECURSIVE Without(_, _)
Without(s, x) ==
    IF s = <<>> THEN <<>>
    ELSE IF Head(s) = x THEN Without(Tail(s), x)
    ELSE <<Head(s)>> \o Without(Tail(s), x)

\* Array.prototype.map(f => f === old ? new : f).
Replace(s, old, new) == [i \in 1..Len(s) |-> IF s[i] = old THEN new ELSE s[i]]

(***************************************************************************)
(* The remote repository.  A file is [folder, name, sha, date]: the        *)
(* directory it lies in, its name, its content hash (a function of its     *)
(* content alone) and the date of the last commit on its path.  A          *)
(* directory exists exactly when a file lies in it.                        *)
(***************************************************************************)
\* The file names of the model, in the order the remote lists them.
FileNameOrder ==
    <<".gitkeep", "B.jpg", "a.jpg", "b.png", "c.gif",
      "p01.jpg", "p02.jpg", "p03.jpg", "p04.jpg", "p05.jpg", "p06.jpg",
      "p07.jpg", "p08.jpg", "p09.jpg", "p10.jpg", "p11.jpg", "p12.jpg",
      "p13.jpg", "p14.jpg", "p15.jpg", "p16.jpg", "p17.jpg", "p18.jpg",
      "p19.jpg", "p20.jpg">>

FileNames == {FileNameOrder[i] : i \in 1..Len(FileNameOrder)}

FileIndex(n) == CHOOSE i \in 1..Len(FileNameOrder) : FileNameOrder[i] = n

\* /\.(jpg|jpeg|png|gif|webp)$/i on the file names of the model.
IsImageName(n) == n \in FileNames \ {".gitkeep"}

\* The root directory, as a folder name.
Root == <<>>

\* The content hash of the empty content, which a placeholder file has.
EmptySha == 0

\* new Date(0): the epoch.
Epoch == 0

\* The date of every commit made while the model runs.
Now == 3

MkFile(fo, n, sha, date) == [folder |-> fo, name |-> n, sha |-> sha, date |-> date]

FilesIn(t, fo) == {f \in t : f.folder = fo}

HasFile(t, fo, n) == \E f \in t : f.folder = fo /\ f.name = n

RECURSIVE SetToSortedFiles(_)
SetToSortedFiles(S) ==
    IF S = {} THEN <<>>
    ELSE LET x == CHOOSE y \in S : \A z \in S : FileIndex(y.name) <= FileIndex(z.name)
         IN <<x>> \o SetToSortedFiles(S \ {x})

\* GET /{repo}/contents/{folder}: the entries of a directory.
ListFolder(t, fo) == SetToSortedFiles(FilesIn(t, fo))

\* GET /{repo}/contents/: the names of the entries of type 'dir'.
ListRootDirs(t) == SetToSortedNames({f.folder : f \in t} \ {Root})

\* PUT /{repo}/contents/{folder}/{name} without a sha creates the file; the
\* remote refuses it when the path exists.
PutFile(t, fo, n, sha) == t \cup {MkFile(fo, n, sha, Now)}

\* DELETE /{repo}/contents/{folder}/{name} with the file's sha.
DeleteFile(t, fo, n, sha) == {f \in t : ~(f.folder = fo /\ f.name = n /\ f.sha = sha)}

\* The credentials the remote accepts.
ValidCredentials == {[token |-> "t1", repo |-> "r1"]}

(***************************************************************************)
(* State.                                                                  *)
(***************************************************************************)
VARIABLES
    storage,          \* localStorage: github_token and github_repo
    mounted,          \* the mount effect of App has run
    isAuthenticated,
    loginError,
    config,
    folders,
    images,
    activeFolder,
    isLoading,
    isUploading,
    notification,
    currentPage,
    renamingFolder,
    newFolderName,
    folderToDelete,
    sortOrder,
    selectedImageIndex,
    imageToDelete,
    tree,             \* the remote repository
    tasks,            \* bag of handler invocations suspended at an await
    last,             \* the step taken last (observation only)
    ops               \* the number of user events so far (bounds the run)

vars == <<storage, mounted, isAuthenticated, loginError, config, folders, images,
          activeFolder, isLoading, isUploading, notification, currentPage,
          renamingFolder, newFolderName, folderToDelete, sortOrder,
          selectedImageIndex, imageToDelete, tree, tasks, last, ops>>

NoConfig == [token |-> Null, repo |-> Null]

NoNotification == [type |-> "none", msg |-> "none", n |-> 0]

showNotification(msg, type) == [type |-> type, msg |-> msg, n |-> 0]

\* A notification whose message holds a number.
showCount(msg, type, n) == [type |-> type, msg |-> msg, n |-> n]

\* What `last` records: the handler, how the step ended, the folder it is
\* about, and the suspended invocation it resumed (for a user event: what
\* the user typed, or <<>>).
StepOf(op, res, name, t) == [op |-> op, res |-> res, name |-> name, task |-> t]

Step(op, res, name) == StepOf(op, res, name, <<>>)

\* !x for an optional name: null and the empty string are falsy.
Falsy(o) == o = None \/ o[1] = <<>>

Spawn(bag, t) == bag (+) SetToBag({t})

Retire(bag, t) == bag (-) SetToBag({t})

InFlight == BagToSet(tasks)

\* A step of the user, counted, and a step of the program or the remote.
User == ops < MaxOps /\ ops' = ops + 1

UploadUser == ops < MaxUploadOps /\ ops' = ops + 1

Auto == UNCHANGED ops

\* The suspended invocations of one handler.
TasksOf(kind) == {t \in InFlight : t.kind = kind}

\* The main view (not the loader, not the login form) is rendered.
MainView == isAuthenticated

\* The login form is rendered and enabled.
LoginView == ~isAuthenticated /\ ~isLoading

(***************************************************************************)
(* The effects that follow a render.  loadFolders is recreated when config *)
(* or activeFolder changes and loadImagesForFolder when config changes; so *)
(* the effect of lines 331-335 reruns when config or activeFolder changed, *)
(* and so does the effect of lines 385-391.  A step hands over the values  *)
(* its own updates give (c2, a2, img, ld, pg, tk); Render adds what the    *)
(* effects do and binds the six variables.                                 *)
(***************************************************************************)
LoadFoldersTask(act) == [kind |-> "loadFolders", act |-> act]

LoadImagesTask(fo) ==
    [kind |-> "loadImages", folder |-> fo, pc |-> "list", data |-> <<>>, failed |-> {}]

\* A variant of Render whose images effect leaves the page cursor alone.
RenderKeepsPage(cfgSet, c2, a2, img, ld, pg, tk) ==
    LET changed == cfgSet \/ a2 # activeFolder
        foldersEffect == changed /\ c2 # NoConfig
        imagesEffect == changed /\ ~Falsy(a2) /\ c2 # NoConfig
        tk1 == IF foldersEffect THEN Spawn(tk, LoadFoldersTask(a2)) ELSE tk
        tk2 == IF imagesEffect THEN Spawn(tk1, LoadImagesTask(a2[1])) ELSE tk1
    IN /\ BagCardinality(tk2) <= MaxTasks
       /\ config' = c2
       /\ activeFolder' = a2
       /\ tasks' = tk2
       /\ isLoading' = (IF foldersEffect \/ imagesEffect THEN TRUE ELSE ld)
       /\ currentPage' = pg
       /\ images' = (IF imagesEffect \/ (changed /\ Falsy(a2)) THEN <<>> ELSE img)

Render(cfgSet, c2, a2, img, ld, pg, tk) ==
    LET changed == cfgSet \/ a2 # activeFolder
        foldersEffect == changed /\ c2 # NoConfig
        imagesEffect == changed /\ ~Falsy(a2) /\ c2 # NoConfig
        tk1 == IF foldersEffect THEN Spawn(tk, LoadFoldersTask(a2)) ELSE tk
        tk2 == IF imagesEffect THEN Spawn(tk1, LoadImagesTask(a2[1])) ELSE tk1
    IN /\ BagCardinality(tk2) <= MaxTasks
       /\ config' = c2
       /\ activeFolder' = a2
       /\ tasks' = tk2
       /\ isLoading' = (IF foldersEffect \/ imagesEffect THEN TRUE ELSE ld)
       /\ currentPage' = (IF imagesEffect THEN 1 ELSE pg)
       /\ images' = (IF imagesEffect \/ (changed /\ Falsy(a2)) THEN <<>> ELSE img)

\* A step that touches neither config nor activeFolder.
NoRender(img, ld, pg, tk) == Render(FALSE, config, activeFolder, img, ld, pg, tk)

(***************************************************************************)
(* Session: lines 251-312.                                                 *)
(***************************************************************************)
\* What a user may type into the login form.
LoginTokens == {"t1", "t2"}

LoginRepos == {"r1"}

\* What local storage may hold when the page is opened.
InitStorages ==
    [token : {Null, "t1", "t2"}, repo : {Null, "r1"}]

NoStorage == [token |-> Null, repo |-> Null]

\* GET /{repo}: the remote accepts valid credentials, and any request may fail.
ValidateOutcomes(token, repo) ==
    IF [token |-> token, repo |-> repo] \in ValidCredentials
    THEN {"ok", "error"} ELSE {"error"}

\* A variant of StoredCredentials that is content with one of the two.
StoredCredentialsEither(st) == st.token # Null \/ st.repo # Null

\* storedToken && storedRepo, line 271.
StoredCredentials(st) == st.token # Null /\ st.repo # Null

\* The mount effect, lines 251-276.
Mount ==
    /\ ~mounted
    /\ mounted' = TRUE
    /\ IF StoredCredentials(storage)
       THEN /\ NoRender(images, isLoading, currentPage,
                        Spawn(tasks, [kind |-> "validate", token |-> storage.token,
                                      repo |-> storage.repo]))
            /\ last' = Step("mount", "validate", <<>>)
       ELSE /\ NoRender(images, FALSE, currentPage, tasks)
            /\ last' = Step("mount", "login", <<>>)
    /\ UNCHANGED <<storage, isAuthenticated, loginError, folders, isUploading,
                   notification, renamingFolder, newFolderName, folderToDelete, tree>>
    /\ UNCHANGED <<sortOrder, selectedImageIndex, imageToDelete>>

\* validateAndSetConfig after its await, lines 258-268.
ValidateDone(t, r) ==
    /\ t.kind = "validate"
    /\ IF r = "ok"
       THEN /\ isAuthenticated' = TRUE
            /\ Render(TRUE, [token |-> t.token, repo |-> t.repo], activeFolder,
                      images, FALSE, currentPage, Retire(tasks, t))
            /\ UNCHANGED <<storage, loginError>>
       ELSE /\ storage' = NoStorage
            /\ loginError' = "storedInvalid"
            /\ NoRender(images, FALSE, currentPage, Retire(tasks, t))
            /\ UNCHANGED isAuthenticated
    /\ last' = StepOf("validate", r, <<>>, t)
    /\ UNCHANGED <<mounted, folders, isUploading, notification, renamingFolder,
                   newFolderName, folderToDelete, tree>>
    /\ UNCHANGED <<sortOrder, selectedImageIndex, imageToDelete>>

\* handleLogin up to its await, lines 286-290.
Login(token, repo) ==
    /\ mounted
    /\ LoginView
    /\ loginError' = Null
    /\ NoRender(images, TRUE, currentPage,
                Spawn(tasks, [kind |-> "login", token |-> token, repo |-> repo]))
    /\ last' = Step("login", "submit", <<>>)
    /\ UNCHANGED <<storage, mounted, isAuthenticated, folders, isUploading,
                   notification, renamingFolder, newFolderName, folderToDelete, tree>>
    /\ UNCHANGED <<sortOrder, selectedImageIndex, imageToDelete>>

\* A variant of LoginStorage that writes the credentials before the request
\* was answered.
LoginStorageEager(t, r) == [token |-> t.token, repo |-> t.repo]

\* What handleLogin leaves in local storage, lines 290-292: the credentials
\* are written after the await, which throws when the request failed.
LoginStorage(t, r) ==
    IF r = "ok" THEN [token |-> t.token, repo |-> t.repo] ELSE storage

\* handleLogin after its await, lines 290-300.
LoginDone(t, r) ==
    /\ t.kind = "login"
    /\ storage' = LoginStorage(t, r)
    /\ IF r = "ok"
       THEN /\ isAuthenticated' = TRUE
            /\ Render(TRUE, [token |-> t.token, repo |-> t.repo], activeFolder,
                      images, FALSE, currentPage, Retire(tasks, t))
            /\ UNCHANGED loginError
       ELSE /\ loginError' = "loginFailed"
            /\ isAuthenticated' = FALSE
            /\ NoRender(images, FALSE, currentPage, Retire(tasks, t))
    /\ last' = StepOf("login", r, <<>>, t)
    /\ UNCHANGED <<mounted, folders, isUploading, notification, renamingFolder,
                   newFolderName, folderToDelete, tree>>
    /\ UNCHANGED <<sortOrder, selectedImageIndex, imageToDelete>>

\* handleLogout, lines 303-312.
Logout ==
    /\ MainView
    /\ storage' = NoStorage
    /\ isAuthenticated' = FALSE
    /\ folders' = <<>>
    /\ loginError' = Null
    /\ Render(config # NoConfig, NoConfig, None, <<>>, isLoading, currentPage, tasks)
    /\ last' = Step("logout", "ok", <<>>)
    /\ UNCHANGED <<mounted, isUploading, notification, renamingFolder,
                   newFolderName, folderToDelete, tree>>
    /\ UNCHANGED <<sortOrder, selectedImageIndex, imageToDelete>>

(***************************************************************************)
(* Folder listing and image listing: lines 314-365.                        *)
(***************************************************************************)
\* The refresh button: loadFolders up to its await, lines 314-318.
RefreshFolders ==
    /\ MainView
    /\ config # NoConfig
    /\ NoRender(images, TRUE, currentPage, Spawn(tasks, LoadFoldersTask(activeFolder)))
    /\ last' = Step("loadFolders", "start", <<>>)
    /\ UNCHANGED <<storage, mounted, isAuthenticated, loginError, folders, isUploading,
                   notification, renamingFolder, newFolderName, folderToDelete, tree>>
    /\ UNCHANGED <<sortOrder, selectedImageIndex, imageToDelete>>

\* loadFolders after its await, lines 318-328.  t.act is the activeFolder of
\* the render the callback was created in.
LoadFoldersDone(t, r) ==
    /\ t.kind = "loadFolders"
    /\ r \in {"ok", "error"}
    /\ IF r = "ok"
       THEN LET folderData == ListRootDirs(tree)
            IN /\ folders' = folderData
               /\ Render(FALSE, config,
                         IF Len(folderData) > 0 /\ Falsy(t.act)
                         THEN Some(folderData[1]) ELSE activeFolder,
                         images, FALSE, currentPage, Retire(tasks, t))
               /\ UNCHANGED notification
       ELSE /\ notification' = showNotification("loadFoldersFailed", "error")
            /\ NoRender(images, FALSE, currentPage, Retire(tasks, t))
            /\ UNCHANGED folders
    /\ last' = StepOf("loadFolders", r, <<>>, t)
    /\ UNCHANGED <<storage, mounted, isAuthenticated, loginError, isUploading,
                   renamingFolder, newFolderName, folderToDelete, tree>>
    /\ UNCHANGED <<sortOrder, selectedImageIndex, imageToDelete>>

\* An entry of a folder listing as an image without its commit date.
AsImage(f, date) == [name |-> f.name, sha |-> f.sha, folder |-> f.folder, commitDate |-> date]

\* Array.prototype.filter with the image name test of line 344.
RECURSIVE FilterImages(_)
FilterImages(fs) ==
    IF fs = <<>> THEN <<>>
    ELSE IF IsImageName(Head(fs).name) THEN <<Head(fs)>> \o FilterImages(Tail(fs))
    ELSE FilterImages(Tail(fs))

\* GET /{repo}/commits?path=...&per_page=1: the date of the last commit on
\* the path; a path removed while the model runs was last committed Now.
LastCommitDate(t, f) ==
    IF \E g \in t : g.folder = f.folder /\ g.name = f.name
    THEN (CHOOSE g \in t : g.folder = f.folder /\ g.name = f.name).date
    ELSE Now

\* loadImagesForFolder after its first await, lines 343-346 and 360-364.
LoadImagesListed(t, r) ==
    /\ t.kind = "loadImages" /\ t.pc = "list"
    /\ r \in (IF FilesIn(tree, t.folder) = {} THEN {"notfound", "error"} ELSE {"ok", "error"})
    /\ LET imageData == FilterImages(ListFolder(tree, t.folder))
       IN IF r = "ok" /\ imageData # <<>>
          THEN NoRender(images, isLoading, currentPage,
                        Spawn(Retire(tasks, t), [t EXCEPT !.pc = "dates", !.data = imageData]))
          ELSE NoRender(<<>>, FALSE, currentPage, Retire(tasks, t))
    /\ last' = StepOf("loadImages", r, t.folder, t)
    /\ UNCHANGED <<storage, mounted, isAuthenticated, loginError, folders, isUploading,
                   notification, renamingFolder, newFolderName, folderToDelete, tree>>
    /\ UNCHANGED <<sortOrder, selectedImageIndex, imageToDelete>>

\* The names of a sequence of files.
ImageNames(fs) == {fs[i].name : i \in 1..Len(fs)}

\* A variant of CommitDateOf where one failed lookup fails them all.
CommitDateOfAny(t, f, failed) == IF failed # {} THEN Epoch ELSE LastCommitDate(t, f)

\* Lines 348-357 for one image: the date of its last commit, or the epoch
\* when its lookup threw or answered with no commit.
CommitDateOf(t, f, failed) == IF f.name \in failed THEN Epoch ELSE LastCommitDate(t, f)

\* loadImagesForFolder after Promise.all, lines 346-364: the lookups of the
\* images in `failed` threw or came back empty, the others answered.
LoadImagesDated(t, failed) ==
    /\ t.kind = "loadImages" /\ t.pc = "dates"
    /\ failed \subseteq ImageNames(t.data)
    /\ LET imagesWithDates ==
               [i \in 1..Len(t.data) |->
                   AsImage(t.data[i], CommitDateOf(tree, t.data[i], failed))]
       IN NoRender(imagesWithDates, FALSE, currentPage, Retire(tasks, t))
    /\ last' = StepOf("loadImages", "dated", t.folder, [t EXCEPT !.failed = failed])
    /\ UNCHANGED <<storage, mounted, isAuthenticated, loginError, folders, isUploading,
                   notification, renamingFolder, newFolderName, folderToDelete, tree>>
    /\ UNCHANGED <<sortOrder, selectedImageIndex, imageToDelete>>

\* A click on a folder of the sidebar, line 637.
SelectFolder(f) ==
    /\ MainView
    /\ Includes(folders, f)
    /\ renamingFolder # Some(f)
    /\ Render(FALSE, config, Some(f), images, isLoading, currentPage, tasks)
    /\ last' = Step("select", "ok", f)
    /\ UNCHANGED <<storage, mounted, isAuthenticated, loginError, folders, isUploading,
                   notification, renamingFolder, newFolderName, folderToDelete, tree>>
    /\ UNCHANGED <<sortOrder, selectedImageIndex, imageToDelete>>

\* The Notification component's timers, lines 53-62: the toast ends.
NotificationEnd ==
    /\ notification # NoNotification
    /\ notification' = NoNotification
    /\ last' = Step("notificationEnd", "ok", <<>>)
    /\ UNCHANGED <<storage, mounted, isAuthenticated, loginError, config, folders,
                   images, activeFolder, isLoading, isUploading, currentPage,
                   renamingFolder, newFolderName, folderToDelete, tree, tasks>>
    /\ UNCHANGED <<sortOrder, selectedImageIndex, imageToDelete>>

(***************************************************************************)
(* Folder create, delete and rename: lines 393-529.                        *)
(***************************************************************************)
\* What a user may type as a folder name.
RawNames == {<<"A">>, <<"c">>, <<"!">>, <<" ">>}

\* The answers of the remote to a listing of a directory: its entries, or
\* not found (or an empty answer) when no file lies in it; any call may
\* fail otherwise.
ListOutcomes(t, fo) ==
    IF FilesIn(t, fo) = {} THEN {"notfound", "empty", "error"} ELSE {"ok", "error"}

\* The answers to a PUT that creates folder/name: refused when the path exists.
PutOutcomes(t, fo, n) == IF HasFile(t, fo, n) THEN {"error"} ELSE {"ok", "error"}

\* The answers to a GET of one file.
GetOutcomes(t, f) ==
    IF HasFile(t, f.folder, f.name) THEN {"ok", "error"} ELSE {"notfound", "error"}

\* The answers to a DELETE of file f with f.sha as its precondition token.
DeleteOutcomes(t, f) ==
    IF f \in {[g EXCEPT !.date = f.date] : g \in t} THEN {"ok", "error"}
    ELSE IF HasFile(t, f.folder, f.name) THEN {"error"}
    ELSE {"notfound", "error"}

\* (error as Error).message.includes("Not Found")
IsNotFound(r) == r = "notfound"

\* A variant of FolderNameExists that finds no name taken.
FolderNameExistsNever(fs, name) == FALSE

\* folders.includes(name), lines 401 and 481.
FolderNameExists(fs, name) == Includes(fs, name)

\* handleAddFolder up to its await, lines 393-406.
AddFolder(raw) ==
    /\ MainView
    /\ LET folderName == Trim(raw)
           sanitized == sanitizeFolderName(folderName)
       IN IF config = NoConfig \/ folderName = <<>>
          THEN /\ last' = StepOf("addFolder", "noop", sanitized, raw)
               /\ NoRender(images, isLoading, currentPage, tasks)
               /\ UNCHANGED notification
          ELSE IF FolderNameExists(folders, sanitized)
          THEN /\ notification' = showNotification("folderExists", "error")
               /\ last' = StepOf("addFolder", "exists", sanitized, raw)
               /\ NoRender(images, isLoading, currentPage, tasks)
          ELSE /\ NoRender(images, isLoading, currentPage,
                           Spawn(tasks, [kind |-> "addFolder", name |-> sanitized,
                                         folders |-> folders]))
               /\ last' = StepOf("addFolder", "start", sanitized, raw)
               /\ UNCHANGED notification
    /\ UNCHANGED <<storage, mounted, isAuthenticated, loginError, folders, isUploading,
                   renamingFolder, newFolderName, folderToDelete, tree>>
    /\ UNCHANGED <<sortOrder, selectedImageIndex, imageToDelete>>

\* handleAddFolder after its await, lines 407-420.  t.folders is the folder
\* list of the render the handler was created in.
AddFolderDone(t, r) ==
    /\ t.kind = "addFolder"
    /\ r \in PutOutcomes(tree, t.name, ".gitkeep")
    /\ IF r = "ok"
       THEN /\ tree' = PutFile(tree, t.name, ".gitkeep", EmptySha)
            /\ notification' = showNotification("folderCreated", "success")
            /\ folders' = Append(t.folders, t.name)
            /\ Render(FALSE, config, Some(t.name), images, isLoading, currentPage,
                      Retire(tasks, t))
       ELSE /\ notification' = showNotification("createFailed", "error")
            /\ NoRender(images, isLoading, currentPage, Retire(tasks, t))
            /\ UNCHANGED <<tree, folders>>
    /\ last' = StepOf("addFolder", r, t.name, t)
    /\ UNCHANGED <<storage, mounted, isAuthenticated, loginError, isUploading,
                   renamingFolder, newFolderName, folderToDelete>>
    /\ UNCHANGED <<sortOrder, selectedImageIndex, imageToDelete>>

\* The delete button of a folder, line 653.
RequestDeleteFolder(f) ==
    /\ MainView
    /\ Includes(folders, f)
    /\ renamingFolder # Some(f)
    /\ folderToDelete' = Some(f)
    /\ last' = Step("requestDeleteFolder", "ok", f)
    /\ UNCHANGED <<storage, mounted, isAuthenticated, loginError, config, folders,
                   images, activeFolder, isLoading, isUploading, notification,
                   currentPage, renamingFolder, newFolderName, tree, tasks>>
    /\ UNCHANGED <<sortOrder, selectedImageIndex, imageToDelete>>

\* The confirmation dialog is dismissed: cancel, overlay or Escape, line 725.
CancelDeleteFolder ==
    /\ MainView
    /\ ~Falsy(folderToDelete)
    /\ folderToDelete' = None
    /\ last' = Step("cancelDeleteFolder", "ok", folderToDelete[1])
    /\ UNCHANGED <<storage, mounted, isAuthenticated, loginError, config, folders,
                   images, activeFolder, isLoading, isUploading, notification,
                   currentPage, renamingFolder, newFolderName, tree, tasks>>
    /\ UNCHANGED <<sortOrder, selectedImageIndex, imageToDelete>>

\* handleConfirmDeleteFolder up to its first await, lines 423-431.
ConfirmDeleteFolder ==
    /\ MainView
    /\ ~Falsy(folderToDelete)
    /\ config # NoConfig
    /\ folderToDelete' = None
    /\ NoRender(images, TRUE, currentPage,
                Spawn(tasks, [kind |-> "deleteFolder", name |-> folderToDelete[1],
                              folders |-> folders, act |-> activeFolder,
                              pc |-> "list", files |-> <<>>]))
    /\ last' = Step("deleteFolder", "start", folderToDelete[1])
    /\ UNCHANGED <<storage, mounted, isAuthenticated, loginError, folders, isUploading,
                   notification, renamingFolder, newFolderName, tree>>
    /\ UNCHANGED <<sortOrder, selectedImageIndex, imageToDelete>>

\* The end of handleConfirmDeleteFolder: lines 441-446 (msg "folderDeleted"),
\* lines 449-454 (msg "emptyFolderDeleted"), each followed by line 459.
DeleteFolderRemoved(t, msg, tk) ==
    LET updatedFolders == Without(t.folders, t.name)
    IN /\ notification' = showNotification(msg, "success")
       /\ folders' = updatedFolders
       /\ Render(FALSE, config,
                 IF t.act = Some(t.name)
                 THEN (IF Len(updatedFolders) > 0 THEN Some(updatedFolders[1]) ELSE None)
                 ELSE activeFolder,
                 images, FALSE, currentPage, tk)

\* The catch of handleConfirmDeleteFolder, lines 447-459.
DeleteFolderCaught(t, r, tk) ==
    IF IsNotFound(r)
    THEN DeleteFolderRemoved(t, "emptyFolderDeleted", tk)
    ELSE /\ notification' = showNotification("deleteFolderFailed", "error")
         /\ NoRender(images, FALSE, currentPage, tk)
         /\ UNCHANGED folders

\* handleConfirmDeleteFolder after the listing, lines 431-432.
DeleteFolderListed(t, r) ==
    /\ t.kind = "deleteFolder" /\ t.pc = "list"
    /\ r \in ListOutcomes(tree, t.name)
    /\ LET files == ListFolder(tree, t.name)
       IN IF r = "ok"
          THEN /\ NoRender(images, isLoading, currentPage,
                           Spawn(Retire(tasks, t),
                                 [t EXCEPT !.pc = "loop", !.files = files]))
               /\ UNCHANGED <<notification, folders>>
          ELSE IF r = "empty"
          THEN DeleteFolderRemoved(t, "folderDeleted", Retire(tasks, t))
          ELSE DeleteFolderCaught(t, r, Retire(tasks, t))
    /\ last' = StepOf("deleteFolder", IF r = "ok" THEN "listed" ELSE r, t.name, t)
    /\ UNCHANGED <<storage, mounted, isAuthenticated, loginError, isUploading,
                   renamingFolder, newFolderName, folderToDelete, tree>>
    /\ UNCHANGED <<sortOrder, selectedImageIndex, imageToDelete>>

\* One turn of the loop of handleConfirmDeleteFolder, lines 432-446: the
\* DELETE of the next listed file was answered.
DeleteFolderStep(t, r) ==
    /\ t.kind = "deleteFolder" /\ t.pc = "loop"
    /\ r \in DeleteOutcomes(tree, Head(t.files))
    /\ LET file == Head(t.files)
           rest == Tail(t.files)
       IN IF r = "ok"
          THEN /\ tree' = DeleteFile(tree, file.folder, file.name, file.sha)
               /\ IF rest = <<>>
                  THEN /\ DeleteFolderRemoved(t, "folderDeleted", Retire(tasks, t))
                       /\ last' = StepOf("deleteFolder", "done", t.name, t)
                  ELSE /\ NoRender(images, isLoading, currentPage,
                                   Spawn(Retire(tasks, t), [t EXCEPT !.files = rest]))
                       /\ last' = StepOf("deleteFolder", "deleted", t.name, t)
                       /\ UNCHANGED <<notification, folders>>
          ELSE /\ DeleteFolderCaught(t, r, Retire(tasks, t))
               /\ last' = StepOf("deleteFolder", r, t.name, t)
               /\ UNCHANGED tree
    /\ UNCHANGED <<storage, mounted, isAuthenticated, loginError, isUploading,
                   renamingFolder, newFolderName, folderToDelete>>
    /\ UNCHANGED <<sortOrder, selectedImageIndex, imageToDelete>>

\* A double click on a folder name: handleStartRename, lines 463-467.
StartRename(f) ==
    /\ MainView
    /\ Includes(folders, f)
    /\ renamingFolder # Some(f)
    /\ renamingFolder' = Some(f)
    /\ newFolderName' = f
    /\ Render(FALSE, config, Some(f), images, isLoading, currentPage, tasks)
    /\ last' = Step("startRename", "ok", f)
    /\ UNCHANGED <<storage, mounted, isAuthenticated, loginError, folders, isUploading,
                   notification, folderToDelete, tree>>
    /\ UNCHANGED <<sortOrder, selectedImageIndex, imageToDelete>>

\* The rename input is rendered: line 638.
RenameInputShown ==
    MainView /\ renamingFolder # None /\ Includes(folders, renamingFolder[1])

\* Typing into the rename input, line 643.
TypeNewFolderName(raw) ==
    /\ RenameInputShown
    /\ newFolderName # raw
    /\ newFolderName' = raw
    /\ last' = Step("typeNewFolderName", "ok", renamingFolder[1])
    /\ UNCHANGED <<storage, mounted, isAuthenticated, loginError, config, folders,
                   images, activeFolder, isLoading, isUploading, notification,
                   currentPage, renamingFolder, folderToDelete, tree, tasks>>
    /\ UNCHANGED <<sortOrder, selectedImageIndex, imageToDelete>>

\* Escape in the rename input, lines 492-494.
CancelRename ==
    /\ RenameInputShown
    /\ renamingFolder' = None
    /\ last' = Step("cancelRename", "ok", renamingFolder[1])
    /\ UNCHANGED <<storage, mounted, isAuthenticated, loginError, config, folders,
                   images, activeFolder, isLoading, isUploading, notification,
                   currentPage, newFolderName, folderToDelete, tree, tasks>>
    /\ UNCHANGED <<sortOrder, selectedImageIndex, imageToDelete>>

\* Blur of (or Enter in) the rename input: handleFinishRename, lines 469-487,
\* and renameFolderOnGitHub up to its first await, lines 497-501.
FinishRename ==
    /\ RenameInputShown
    /\ LET oldName == renamingFolder[1]
           newSanitizedName == sanitizeFolderName(Trim(newFolderName))
       IN IF Falsy(renamingFolder)
          THEN /\ last' = StepOf("finishRename", "noop", oldName, newFolderName)
               /\ NoRender(images, isLoading, currentPage, tasks)
               /\ UNCHANGED <<renamingFolder, notification>>
          ELSE /\ renamingFolder' = None
               /\ IF newSanitizedName = <<>> \/ oldName = newSanitizedName
                  THEN /\ last' = StepOf("finishRename", "noop", oldName, newFolderName)
                       /\ NoRender(images, isLoading, currentPage, tasks)
                       /\ UNCHANGED notification
                  ELSE IF FolderNameExists(folders, newSanitizedName)
                  THEN /\ notification' = showNotification("folderExists", "error")
                       /\ last' = StepOf("finishRename", "exists", oldName, newFolderName)
                       /\ NoRender(images, isLoading, currentPage, tasks)
                  ELSE IF config = NoConfig
                  THEN /\ last' = StepOf("finishRename", "noop", oldName, newFolderName)
                       /\ NoRender(images, isLoading, currentPage, tasks)
                       /\ UNCHANGED notification
                  ELSE /\ NoRender(images, TRUE, currentPage,
                                   Spawn(tasks, [kind |-> "rename", old |-> oldName,
                                                 new |-> newSanitizedName,
                                                 act |-> activeFolder, pc |-> "list",
                                                 listed |-> <<>>, files |-> <<>>,
                                                 content |-> EmptySha,
                                                 fetched |-> {}, created |-> {}]))
                       /\ last' = StepOf("finishRename", "start", oldName, newFolderName)
                       /\ UNCHANGED notification
    /\ UNCHANGED <<storage, mounted, isAuthenticated, loginError, folders, isUploading,
                   newFolderName, folderToDelete, tree>>
    /\ UNCHANGED <<sortOrder, selectedImageIndex, imageToDelete>>

\* The end of the try of renameFolderOnGitHub, lines 519-521 and 527.
RenameSucceeded(t, tk) ==
    /\ notification' = showNotification("renamed", "success")
    /\ folders' = SortNames(Replace(folders, t.old, t.new))
    /\ Render(FALSE, config, Some(t.new), images, FALSE, currentPage, tk)

\* A variant of RenameCaught that does not reload the folder list.
RenameCaughtNoReload(t, tk) ==
    /\ notification' = showNotification("renameFailed", "error")
    /\ NoRender(images, FALSE, currentPage, tk)
    /\ UNCHANGED folders

\* The catch of renameFolderOnGitHub, lines 523-527: loadFolders is the
\* callback of the render the handler was created in, with t.act as its
\* activeFolder.
RenameCaught(t, tk) ==
    /\ notification' = showNotification("renameFailed", "error")
    /\ NoRender(images, FALSE, currentPage, Spawn(tk, LoadFoldersTask(t.act)))
    /\ UNCHANGED folders

\* renameFolderOnGitHub after the listing, lines 501-506.
RenameListed(t, r) ==
    /\ t.kind = "rename" /\ t.pc = "list"
    /\ r \in ListOutcomes(tree, t.old)
    /\ LET filesToMove == ListFolder(tree, t.old)
       IN IF r = "ok"
          THEN /\ NoRender(images, isLoading, currentPage,
                           Spawn(Retire(tasks, t),
                                 [t EXCEPT !.pc = "get", !.listed = filesToMove,
                                           !.files = filesToMove]))
               /\ UNCHANGED <<notification, folders>>
          ELSE IF r = "empty"
          THEN /\ NoRender(images, isLoading, currentPage,
                           Spawn(Retire(tasks, t), [t EXCEPT !.pc = "keep"]))
               /\ UNCHANGED <<notification, folders>>
          ELSE RenameCaught(t, Retire(tasks, t))
    /\ last' = StepOf("rename", IF r = "ok" THEN "listed" ELSE r, t.old, t)
    /\ UNCHANGED <<storage, mounted, isAuthenticated, loginError, isUploading,
                   renamingFolder, newFolderName, folderToDelete, tree>>
    /\ UNCHANGED <<sortOrder, selectedImageIndex, imageToDelete>>

\* A variant of RenameCallAfter that deletes the source file before it
\* creates the copy.
RenameCallAfterDeleteFirst(pc) ==
    CASE pc = "get" -> "del"
      [] pc = "del" -> "put"
      [] OTHER -> "next"

\* A variant of RenameCallAfter that goes on to the next file once the copy
\* is created.
RenameCallAfterNoDelete(pc) ==
    CASE pc = "get" -> "put"
      [] OTHER -> "next"

\* The order of the three calls the loop makes for one file, lines 507-515:
\* the call that follows the call at pc.
RenameCallAfter(pc) ==
    CASE pc = "get" -> "put"
      [] pc = "put" -> "del"
      [] OTHER -> "next"

\* The first call the loop makes for a file, line 507.
RenameFirstCall == "get"

\* The answers to the call a rename is suspended at.
RenameOutcomes(t) ==
    CASE t.pc = "keep" -> PutOutcomes(tree, t.new, ".gitkeep")
      [] t.pc = "get" -> GetOutcomes(tree, Head(t.files))
      [] t.pc = "put" -> PutOutcomes(tree, t.new, Head(t.files).name)
      [] OTHER -> DeleteOutcomes(tree, Head(t.files))

\* What the remote does when it answers the call at t.pc with success.
RenameCallEffect(t) ==
    CASE t.pc = "keep" -> PutFile(tree, t.new, ".gitkeep", EmptySha)
      [] t.pc = "get" -> tree
      [] t.pc = "put" -> PutFile(tree, t.new, Head(t.files).name, t.content)
      [] OTHER -> DeleteFile(tree, t.old, Head(t.files).name, Head(t.files).sha)

\* renameFolderOnGitHub after an await of lines 504-515: the call at t.pc was
\* answered.  t.fetched and t.created record the files whose content this
\* invocation has fetched and whose copy it has created (observation only).
RenameStep(t, r) ==
    /\ t.kind = "rename" /\ t.pc \in {"keep", "get", "put", "del"}
    /\ r \in RenameOutcomes(t)
    /\ IF r = "ok"
       THEN /\ tree' = RenameCallEffect(t)
            /\ LET after == IF t.pc = "keep" THEN "next" ELSE RenameCallAfter(t.pc)
                   rest == IF after = "next" /\ t.pc # "keep" THEN Tail(t.files) ELSE t.files
                   t2 == [t EXCEPT !.pc = IF after = "next" THEN RenameFirstCall ELSE after,
                                   !.files = rest,
                                   !.content = IF t.pc = "get" THEN Head(t.files).sha
                                               ELSE t.content,
                                   !.fetched = IF t.pc = "get"
                                               THEN @ \cup {Head(t.files).name} ELSE @,
                                   !.created = IF t.pc = "put"
                                               THEN @ \cup {Head(t.files).name} ELSE @]
               IN IF after = "next" /\ rest = <<>>
                  THEN /\ RenameSucceeded(t, Retire(tasks, t))
                       /\ last' = StepOf("rename", "done", t.old, t)
                  ELSE /\ NoRender(images, isLoading, currentPage,
                                   Spawn(Retire(tasks, t), t2))
                       /\ last' = StepOf("rename", t.pc, t.old, t)
                       /\ UNCHANGED <<notification, folders>>
       ELSE /\ RenameCaught(t, Retire(tasks, t))
            /\ last' = StepOf("rename", r, t.old, t)
            /\ UNCHANGED tree
    /\ UNCHANGED <<storage, mounted, isAuthenticated, loginError, isUploading,
                   renamingFolder, newFolderName, folderToDelete>>
    /\ UNCHANGED <<sortOrder, selectedImageIndex, imageToDelete>>

(***************************************************************************)
(* Image upload: lines 17-24 and 531-568.                                  *)
(***************************************************************************)
\* The files a user may pick: a name and the hash of the content.
UploadChoices ==
    {[name |-> "a.jpg", sha |-> 3], [name |-> "b.png", sha |-> 2],
     [name |-> "c.gif", sha |-> 1]}

\* A variant of NameTaken that finds no name taken.
NameTakenNever(imgs, name) == FALSE

\* images.some(img => img.name === name), line 539.
NameTaken(imgs, name) == \E i \in 1..Len(imgs) : imgs[i].name = name

\* Lines 559-567: the batch has settled.  t.folder is the activeFolder of
\* the render the handler was created in.
UploadSettled(t, note, tk) ==
    /\ isUploading' = FALSE
    /\ IF t.successfulUploads > 0
       THEN /\ notification' = showCount("uploaded", "success", t.successfulUploads)
            /\ NoRender(<<>>, TRUE, 1, Spawn(tk, LoadImagesTask(t.folder)))
       ELSE /\ notification' = note
            /\ NoRender(images, isLoading, currentPage, tk)

\* handleImageUpload up to its awaits, lines 531-546: a file whose name is
\* taken is rejected at once, the others are being read.  t.names are the
\* names of the image list of the render the handler was created in.  The
\* fields puts, issued, unreadable and created of the invocation count the
\* PUT calls it issued and record the files whose PUT was issued, whose
\* reading failed and whose PUT succeeded (observation only).
Upload(batch) ==
    /\ MainView
    /\ ~Falsy(activeFolder)
    /\ config # NoConfig
    /\ batch # {}
    /\ LET rejected == {f \in batch : NameTaken(images, f.name)}
           t == [kind |-> "upload", folder |-> activeFolder[1], batch |-> batch,
                 names |-> {images[i].name : i \in 1..Len(images)},
                 pending |-> batch \ rejected, successfulUploads |-> 0,
                 puts |-> 0, issued |-> {}, unreadable |-> {}, created |-> {}]
           note == IF rejected = {} THEN notification
                   ELSE showNotification("imageExists", "error")
       IN IF t.pending = {}
          THEN /\ UploadSettled(t, note, tasks)
               /\ last' = StepOf("upload", "settled", activeFolder[1], t)
          ELSE /\ isUploading' = TRUE
               /\ notification' = note
               /\ NoRender(images, isLoading, currentPage, Spawn(tasks, t))
               /\ last' = StepOf("upload", "start", activeFolder[1], batch)
    /\ UNCHANGED <<storage, mounted, isAuthenticated, loginError, folders,
                   renamingFolder, newFolderName, folderToDelete, tree>>
    /\ UNCHANGED <<sortOrder, selectedImageIndex, imageToDelete>>

\* The answers for one file of a batch: the file could not be read (line 22),
\* or its PUT was issued and answered.
UploadOutcomes(t, f) == {"unreadable"} \cup PutOutcomes(tree, t.folder, f.name)

\* One callback of lines 543-556 ends: file f was read and its PUT answered
\* (r is "ok" or "error"), or reading it failed.
UploadFileDone(t, f, r) ==
    /\ t.kind = "upload"
    /\ f \in t.pending
    /\ r \in UploadOutcomes(t, f)
    /\ LET t2 == [t EXCEPT !.pending = @ \ {f},
                           !.successfulUploads = IF r = "ok" THEN @ + 1 ELSE @,
                           !.puts = IF r = "unreadable" THEN @ ELSE @ + 1,
                           !.issued = IF r = "unreadable" THEN @ ELSE @ \cup {f},
                           !.unreadable = IF r = "unreadable" THEN @ \cup {f} ELSE @,
                           !.created = IF r = "ok" THEN @ \cup {f} ELSE @]
           note == IF r = "ok" THEN notification
                   ELSE showNotification("uploadFailed", "error")
       IN /\ tree' = (IF r = "ok" THEN PutFile(tree, t.folder, f.name, f.sha) ELSE tree)
          /\ IF t2.pending = {}
             THEN /\ UploadSettled(t2, note, Retire(tasks, t))
                  /\ last' = StepOf("upload", "settled", t.folder, t2)
             ELSE /\ notification' = note
                  /\ NoRender(images, isLoading, currentPage, Spawn(Retire(tasks, t), t2))
                  /\ last' = StepOf("upload", r, t.folder, t2)
                  /\ UNCHANGED isUploading
    /\ UNCHANGED <<storage, mounted, isAuthenticated, loginError, folders,
                   renamingFolder, newFolderName, folderToDelete>>
    /\ UNCHANGED <<sortOrder, selectedImageIndex, imageToDelete>>

(***************************************************************************)
(* The gallery: the sorted and paginated view of lines 367-383, the image  *)
(* delete of lines 570-588, the viewer of lines 595-613 and the controls   *)
(* of lines 672-704.                                                       *)
(***************************************************************************)
\* The values of the sort select, line 672.
SortOrders == {"date-desc", "date-asc", "name-asc", "name-desc"}

\* The names of the model in the order String.prototype.localeCompare gives
\* them: letters compare without case first, so a.jpg precedes B.jpg.
LocaleOrder ==
    <<".gitkeep", "a.jpg", "B.jpg", "b.png", "c.gif",
      "p01.jpg", "p02.jpg", "p03.jpg", "p04.jpg", "p05.jpg", "p06.jpg",
      "p07.jpg", "p08.jpg", "p09.jpg", "p10.jpg", "p11.jpg", "p12.jpg",
      "p13.jpg", "p14.jpg", "p15.jpg", "p16.jpg", "p17.jpg", "p18.jpg",
      "p19.jpg", "p20.jpg">>

LocaleIndex(n) == CHOOSE i \in 1..Len(LocaleOrder) : LocaleOrder[i] = n

\* a.localeCompare(b): negative, zero or positive.
localeCompare(a, b) == LocaleIndex(a) - LocaleIndex(b)

\* A variant of SortCompare that compares ascending in every order.
SortCompareAscending(order, a, b) ==
    IF order \in {"name-asc", "name-desc"} THEN localeCompare(a.name, b.name)
    ELSE a.commitDate - b.commitDate

\* The comparator of the switch of lines 369-378.
SortCompare(order, a, b) ==
    CASE order = "name-asc" -> localeCompare(a.name, b.name)
      [] order = "name-desc" -> localeCompare(b.name, a.name)
      [] order = "date-asc" -> a.commitDate - b.commitDate
      [] OTHER -> b.commitDate - a.commitDate

\* A variant of SortInsert that puts an element in front of its equals.
RECURSIVE SortInsertInFront(_, _, _)
SortInsertInFront(x, s, order) ==
    IF s = <<>> THEN <<x>>
    ELSE IF SortCompare(order, x, Head(s)) <= 0 THEN <<x>> \o s
    ELSE <<Head(s)>> \o SortInsertInFront(x, Tail(s), order)

\* Array.prototype.sort is stable: an element goes behind every element
\* that does not compare greater than it.
RECURSIVE SortInsert(_, _, _)
SortInsert(x, s, order) ==
    IF s = <<>> THEN <<x>>
    ELSE IF SortCompare(order, x, Head(s)) < 0 THEN <<x>> \o s
    ELSE <<Head(s)>> \o SortInsert(x, Tail(s), order)

\* [...imgs].sort(comparator of order), lines 368-379.
RECURSIVE Sorted(_, _)
Sorted(imgs, order) ==
    IF imgs = <<>> THEN <<>>
    ELSE SortInsert(imgs[Len(imgs)], Sorted(SubSeq(imgs, 1, Len(imgs) - 1), order), order)

\* useMemo of lines 367-380.
sortedImages == Sorted(images, sortOrder)

\* A variant of Ceil that rounds down.
CeilDown(n, d) == n \div d

\* Math.ceil(n / d) for n >= 0 and d > 0.
Ceil(n, d) == IF n % d = 0 THEN n \div d ELSE (n \div d) + 1

\* Line 382.
totalPages == Ceil(Len(sortedImages), IMAGES_PER_PAGE)

\* s.slice(from, to) for 0 <= from <= to.
Slice(s, from, to) ==
    SubSeq(s, from + 1, IF to < Len(s) THEN to ELSE Len(s))

\* Line 383 for page p.
PageOf(s, p) == Slice(s, (p - 1) * IMAGES_PER_PAGE, p * IMAGES_PER_PAGE)

paginatedImages == PageOf(sortedImages, currentPage)

\* The gallery of lines 665-705 is rendered.
GalleryView == MainView /\ ~Falsy(activeFolder)

\* The sort select, line 672.
SetSortOrder(o) ==
    /\ GalleryView
    /\ o \in SortOrders
    /\ sortOrder' = o
    /\ last' = Step("sort", o, <<>>)
    /\ UNCHANGED <<storage, mounted, isAuthenticated, loginError, config, folders,
                   images, activeFolder, isLoading, isUploading, notification,
                   currentPage, renamingFolder, newFolderName, folderToDelete,
                   selectedImageIndex, imageToDelete, tree, tasks>>

\* The button "Sau" of line 702.
NextPage ==
    /\ GalleryView
    /\ totalPages > 1
    /\ currentPage # totalPages
    /\ currentPage' = currentPage + 1
    /\ last' = Step("page", "next", <<>>)
    /\ UNCHANGED <<storage, mounted, isAuthenticated, loginError, config, folders,
                   images, activeFolder, isLoading, isUploading, notification,
                   renamingFolder, newFolderName, folderToDelete, sortOrder,
                   selectedImageIndex, imageToDelete, tree, tasks>>

\* The button "Truoc" of line 700.
PrevPage ==
    /\ GalleryView
    /\ totalPages > 1
    /\ currentPage # 1
    /\ currentPage' = currentPage - 1
    /\ last' = Step("page", "prev", <<>>)
    /\ UNCHANGED <<storage, mounted, isAuthenticated, loginError, config, folders,
                   images, activeFolder, isLoading, isUploading, notification,
                   renamingFolder, newFolderName, folderToDelete, sortOrder,
                   selectedImageIndex, imageToDelete, tree, tasks>>

\* s.findIndex(img => img.sha === sha), from 0; -1 when there is none.
FindIndexBySha(s, sha) ==
    IF \E i \in 1..Len(s) : s[i].sha = sha
    THEN (CHOOSE i \in 1..Len(s) : s[i].sha = sha /\ \A j \in 1..(i - 1) : s[j].sha # sha) - 1
    ELSE -1

\* A click on a gallery item: lines 683-685 and handleImageClick, 595-597.
ImageClick(img) ==
    /\ GalleryView
    /\ img \in Range(paginatedImages)
    /\ selectedImageIndex' = Some(FindIndexBySha(sortedImages, img.sha))
    /\ last' = StepOf("viewer", "open", <<>>, img)
    /\ UNCHANGED <<storage, mounted, isAuthenticated, loginError, config, folders,
                   images, activeFolder, isLoading, isUploading, notification,
                   currentPage, renamingFolder, newFolderName, folderToDelete,
                   sortOrder, imageToDelete, tree, tasks>>

\* The viewer of lines 713-722 is mounted, and with it its key handler.
ViewerOpen == MainView /\ selectedImageIndex # None

\* handleCloseModal, lines 599-601: the close button or the overlay.
CloseModal ==
    /\ ViewerOpen
    /\ selectedImageIndex' = None
    /\ last' = Step("viewer", "close", <<>>)
    /\ UNCHANGED <<storage, mounted, isAuthenticated, loginError, config, folders,
                   images, activeFolder, isLoading, isUploading, notification,
                   currentPage, renamingFolder, newFolderName, folderToDelete,
                   sortOrder, imageToDelete, tree, tasks>>

\* A variant of NextIndex without the test against the end of the list.
NextIndexUnbounded(i, n) == i + 1

\* The index handleNextImage sets, lines 603-607.
NextIndex(i, n) == IF i < n - 1 THEN i + 1 ELSE i

\* The index handlePrevImage sets, lines 609-613.
PrevIndex(i, n) == IF i > 0 THEN i - 1 ELSE i

\* handleNextImage: the button or ArrowRight.
NextImage ==
    /\ ViewerOpen
    /\ selectedImageIndex' = Some(NextIndex(selectedImageIndex[1], Len(sortedImages)))
    /\ last' = Step("viewer", "next", <<>>)
    /\ UNCHANGED <<storage, mounted, isAuthenticated, loginError, config, folders,
                   images, activeFolder, isLoading, isUploading, notification,
                   currentPage, renamingFolder, newFolderName, folderToDelete,
                   sortOrder, imageToDelete, tree, tasks>>

\* handlePrevImage: the button or ArrowLeft.
PrevImage ==
    /\ ViewerOpen
    /\ selectedImageIndex' = Some(PrevIndex(selectedImageIndex[1], Len(sortedImages)))
    /\ last' = Step("viewer", "prev", <<>>)
    /\ UNCHANGED <<storage, mounted, isAuthenticated, loginError, config, folders,
                   images, activeFolder, isLoading, isUploading, notification,
                   currentPage, renamingFolder, newFolderName, folderToDelete,
                   sortOrder, imageToDelete, tree, tasks>>

\* The Escape key: the key handlers of the viewer (line 167) and of both
\* confirmation dialogs (line 197) each close what is open.
PressEscape ==
    /\ MainView
    /\ selectedImageIndex # None \/ folderToDelete # None \/ imageToDelete # None
    /\ selectedImageIndex' = None
    /\ folderToDelete' = (IF Falsy(folderToDelete) THEN folderToDelete ELSE None)
    /\ imageToDelete' = None
    /\ last' = Step("escape", "ok", <<>>)
    /\ UNCHANGED <<storage, mounted, isAuthenticated, loginError, config, folders,
                   images, activeFolder, isLoading, isUploading, notification,
                   currentPage, renamingFolder, newFolderName, sortOrder, tree, tasks>>

\* The delete button of a gallery item, line 686.
RequestDeleteImage(img) ==
    /\ GalleryView
    /\ img \in Range(paginatedImages)
    /\ imageToDelete' = Some(img)
    /\ last' = StepOf("requestDeleteImage", "ok", img.folder, img)
    /\ UNCHANGED <<storage, mounted, isAuthenticated, loginError, config, folders,
                   images, activeFolder, isLoading, isUploading, notification,
                   currentPage, renamingFolder, newFolderName, folderToDelete,
                   sortOrder, selectedImageIndex, tree, tasks>>

\* The image dialog is dismissed: cancel or overlay, line 735.
CancelDeleteImage ==
    /\ MainView
    /\ imageToDelete # None
    /\ imageToDelete' = None
    /\ last' = StepOf("cancelDeleteImage", "ok", imageToDelete[1].folder, imageToDelete[1])
    /\ UNCHANGED <<storage, mounted, isAuthenticated, loginError, config, folders,
                   images, activeFolder, isLoading, isUploading, notification,
                   currentPage, renamingFolder, newFolderName, folderToDelete,
                   sortOrder, selectedImageIndex, tree, tasks>>

\* A variant of ConfirmDeleteImage that leaves the pending image in place.
ConfirmDeleteImageKeeps ==
    /\ MainView
    /\ imageToDelete # None
    /\ config # NoConfig
    /\ NoRender(images, isLoading, currentPage,
                Spawn(tasks, [kind |-> "deleteImage", image |-> imageToDelete[1]]))
    /\ last' = StepOf("deleteImage", "start", imageToDelete[1].folder, imageToDelete[1])
    /\ UNCHANGED <<storage, mounted, isAuthenticated, loginError, folders, isUploading,
                   notification, renamingFolder, newFolderName, folderToDelete,
                   sortOrder, selectedImageIndex, imageToDelete, tree>>

\* handleDeleteImage up to its await, lines 570-575.
ConfirmDeleteImage ==
    /\ MainView
    /\ imageToDelete # None
    /\ config # NoConfig
    /\ imageToDelete' = None
    /\ NoRender(images, isLoading, currentPage,
                Spawn(tasks, [kind |-> "deleteImage", image |-> imageToDelete[1]]))
    /\ last' = StepOf("deleteImage", "start", imageToDelete[1].folder, imageToDelete[1])
    /\ UNCHANGED <<storage, mounted, isAuthenticated, loginError, folders, isUploading,
                   notification, renamingFolder, newFolderName, folderToDelete,
                   sortOrder, selectedImageIndex, tree>>

\* prev.filter(img => img.sha !== image.sha), line 583.
RemoveImage(imgs, image) == SelectSeq(imgs, LAMBDA img : img.sha # image.sha)

\* handleDeleteImage after its await, lines 576-587.
DeleteImageDone(t, r) ==
    /\ t.kind = "deleteImage"
    /\ r \in DeleteOutcomes(tree, MkFile(t.image.folder, t.image.name, t.image.sha, Epoch))
    /\ IF r = "ok"
       THEN /\ tree' = DeleteFile(tree, t.image.folder, t.image.name, t.image.sha)
            /\ notification' = showNotification("imageDeleted", "success")
            /\ NoRender(RemoveImage(images, t.image), isLoading, currentPage,
                        Retire(tasks, t))
       ELSE /\ notification' = showNotification("deleteImageFailed", "error")
            /\ NoRender(images, isLoading, currentPage, Retire(tasks, t))
            /\ UNCHANGED tree
    /\ last' = StepOf("deleteImage", r, t.image.folder, t)
    /\ UNCHANGED <<storage, mounted, isAuthenticated, loginError, folders, isUploading,
                   renamingFolder, newFolderName, folderToDelete, sortOrder,
                   selectedImageIndex, imageToDelete>>

(***************************************************************************)
(* The session: opening the page, logging in and out, and the listings     *)
(* the session starts.                                                     *)
(***************************************************************************)
\* The repository the model starts with.
InitTree ==
    {MkFile(<<"a">>, "a.jpg", 1, 1),
     MkFile(<<"b">>, ".gitkeep", EmptySha, 1), MkFile(<<"b">>, "b.png", 2, 2)}

\* The state of App after construction, before its mount effect.
Constructed ==
    /\ mounted = FALSE
    /\ isAuthenticated = FALSE
    /\ loginError = Null
    /\ config = NoConfig
    /\ folders = <<>>
    /\ images = <<>>
    /\ activeFolder = None
    /\ isLoading = TRUE
    /\ isUploading = FALSE
    /\ notification = NoNotification
    /\ currentPage = 1
    /\ renamingFolder = None
    /\ newFolderName = <<>>
    /\ folderToDelete = None
    /\ sortOrder = "date-desc"
    /\ selectedImageIndex = None
    /\ imageToDelete = None
    /\ tasks = EmptyBag
    /\ last = Step("init", "ok", <<>>)

Init ==
    /\ Constructed
    /\ ops = 0
    /\ storage \in InitStorages
    /\ tree = InitTree

SessionNext ==
    \/ Auto /\ Mount
    \/ Auto /\ \E t \in TasksOf("validate") :
                  \E r \in ValidateOutcomes(t.token, t.repo) : ValidateDone(t, r)
    \/ User /\ \E token \in LoginTokens, repo \in LoginRepos : Login(token, repo)
    \/ Auto /\ \E t \in TasksOf("login") :
                  \E r \in ValidateOutcomes(t.token, t.repo) : LoginDone(t, r)
    \/ User /\ Logout
    \/ User /\ RefreshFolders
    \/ Auto /\ \E t \in TasksOf("loadFolders") : \E r \in {"ok", "error"} : LoadFoldersDone(t, r)
    \/ Auto /\ \E t \in TasksOf("loadImages") :
                  \E r \in {"ok", "notfound", "error"} : LoadImagesListed(t, r)
    \/ Auto /\ \E t \in TasksOf("loadImages") :
                  \E failed \in SUBSET ImageNames(t.data) : LoadImagesDated(t, failed)
    \/ User /\ \E f \in Range(folders) : SelectFolder(f)
    \/ Auto /\ NotificationEnd

SpecSession == Init /\ [][SessionNext]_vars

(***************************************************************************)
(* The folder operations of a user who is logged in.                       *)
(***************************************************************************)
\* The images the listing of folder fo gives when every lookup answers.
LoadedImages(t, fo) ==
    LET data == FilterImages(ListFolder(t, fo))
    IN [i \in 1..Len(data) |-> AsImage(data[i], data[i].date)]

\* The state the session reaches when the stored credentials were accepted
\* and the listings it started have completed.
LoggedIn ==
    /\ mounted = TRUE
    /\ storage = [token |-> "t1", repo |-> "r1"]
    /\ isAuthenticated = TRUE
    /\ loginError = Null
    /\ config = [token |-> "t1", repo |-> "r1"]
    /\ folders = ListRootDirs(tree)
    /\ activeFolder = Some(folders[1])
    /\ images = LoadedImages(tree, folders[1])
    /\ isLoading = FALSE
    /\ isUploading = FALSE
    /\ notification = NoNotification
    /\ currentPage = 1
    /\ renamingFolder = None
    /\ newFolderName = <<>>
    /\ folderToDelete = None
    /\ sortOrder = "date-desc"
    /\ selectedImageIndex = None
    /\ imageToDelete = None
    /\ tasks = EmptyBag

InitFolders ==
    /\ tree = InitTree
    /\ ops = 0
    /\ LoggedIn
    /\ last = Step("init", "ok", <<>>)

\* No create, delete or rename of a folder is under way.
NoFolderWrite ==
    TasksOf("addFolder") \cup TasksOf("deleteFolder") \cup TasksOf("rename") = {}

FolderUser == ops < MaxFolderOps /\ ops' = ops + 1

\* The folder operations of a user who starts a create, a delete or a rename
\* when the one before has ended; listings overlap them.
FoldersNext ==
    \/ FolderUser /\ NoFolderWrite /\ \E raw \in RawNames : AddFolder(raw)
    \/ Auto /\ \E t \in TasksOf("addFolder") : \E r \in {"ok", "error"} : AddFolderDone(t, r)
    \/ FolderUser /\ \E f \in Range(folders) : RequestDeleteFolder(f)
    \/ FolderUser /\ CancelDeleteFolder
    \/ FolderUser /\ NoFolderWrite /\ ConfirmDeleteFolder
    \/ Auto /\ \E t \in TasksOf("deleteFolder") :
                  \E r \in {"ok", "empty", "notfound", "error"} : DeleteFolderListed(t, r)
    \/ Auto /\ \E t \in TasksOf("deleteFolder") :
                  \E r \in {"ok", "notfound", "error"} : DeleteFolderStep(t, r)
    \/ FolderUser /\ \E f \in Range(folders) : StartRename(f)
    \/ FolderUser /\ \E raw \in RawNames : TypeNewFolderName(raw)
    \/ FolderUser /\ CancelRename
    \/ FolderUser /\ NoFolderWrite /\ FinishRename
    \/ Auto /\ \E t \in TasksOf("rename") :
                  \E r \in {"ok", "empty", "notfound", "error"} : RenameListed(t, r)
    \/ Auto /\ \E t \in TasksOf("rename") :
                  \E r \in {"ok", "notfound", "error"} : RenameStep(t, r)
    \/ FolderUser /\ RefreshFolders
    \/ Auto /\ \E t \in TasksOf("loadFolders") : \E r \in {"ok", "error"} : LoadFoldersDone(t, r)
    \/ Auto /\ \E t \in TasksOf("loadImages") :
                  \E r \in {"ok", "notfound", "error"} : LoadImagesListed(t, r)
    \/ Auto /\ \E t \in TasksOf("loadImages") :
                  \E failed \in SUBSET ImageNames(t.data) : LoadImagesDated(t, failed)
    \/ FolderUser /\ \E f \in Range(folders) : SelectFolder(f)

SpecFolders == InitFolders /\ [][FoldersNext]_vars

\* Folder deletes that overlap one another.
DeleteUser == ops < MaxDeleteOps /\ ops' = ops + 1

DeleteNext ==
    \/ DeleteUser /\ \E f \in Range(folders) : RequestDeleteFolder(f)
    \/ DeleteUser /\ ConfirmDeleteFolder
    \/ Auto /\ \E t \in TasksOf("deleteFolder") :
                  \E r \in {"ok", "empty", "notfound", "error"} : DeleteFolderListed(t, r)
    \/ Auto /\ \E t \in TasksOf("deleteFolder") :
                  \E r \in {"ok", "notfound", "error"} : DeleteFolderStep(t, r)
    \/ Auto /\ \E t \in TasksOf("loadFolders") : \E r \in {"ok", "error"} : LoadFoldersDone(t, r)
    \/ Auto /\ \E t \in TasksOf("loadImages") :
                  \E r \in {"ok", "notfound", "error"} : LoadImagesListed(t, r)
    \/ Auto /\ \E t \in TasksOf("loadImages") :
                  \E failed \in SUBSET ImageNames(t.data) : LoadImagesDated(t, failed)
    \/ DeleteUser /\ \E f \in Range(folders) : SelectFolder(f)

SpecDelete == InitFolders /\ [][DeleteNext]_vars

(***************************************************************************)
(* Uploads of a user who is logged in.                                     *)
(***************************************************************************)
UploadNext ==
    \/ UploadUser /\ \E batch \in SUBSET UploadChoices : Upload(batch)
    \/ Auto /\ \E t \in TasksOf("upload") :
                  \E f \in t.pending : \E r \in {"unreadable", "ok", "error"} :
                      UploadFileDone(t, f, r)
    \/ UploadUser /\ \E f \in Range(folders) : SelectFolder(f)
    \/ Auto /\ \E t \in TasksOf("loadFolders") : \E r \in {"ok", "error"} : LoadFoldersDone(t, r)
    \/ Auto /\ \E t \in TasksOf("loadImages") :
                  \E r \in {"ok", "notfound", "error"} : LoadImagesListed(t, r)
    \/ Auto /\ \E t \in TasksOf("loadImages") :
                  \E failed \in SUBSET ImageNames(t.data) : LoadImagesDated(t, failed)

SpecUpload == InitFolders /\ [][UploadNext]_vars

(***************************************************************************)
(* The gallery of a user who is logged in: image listings, image delete    *)
(* and both confirmation dialogs.                                          *)
(***************************************************************************)
\* A repository where two images of folder a have the same content.
ImagesTree ==
    {MkFile(<<"a">>, "B.jpg", 2, 1), MkFile(<<"a">>, "a.jpg", 1, 1),
     MkFile(<<"a">>, "c.gif", 1, 2), MkFile(<<"b">>, "b.png", 2, 2)}

InitImages ==
    /\ tree = ImagesTree
    /\ ops = 0
    /\ LoggedIn
    /\ last = Step("init", "ok", <<>>)

ImagesUser == ops < MaxImageOps /\ ops' = ops + 1

ImagesNext ==
    \/ ImagesUser /\ \E img \in Range(images) : RequestDeleteImage(img)
    \/ ImagesUser /\ CancelDeleteImage
    \/ ImagesUser /\ ConfirmDeleteImage
    \/ Auto /\ \E t \in TasksOf("deleteImage") :
                  \E r \in {"ok", "notfound", "error"} : DeleteImageDone(t, r)
    \/ ImagesUser /\ \E f \in Range(folders) : RequestDeleteFolder(f)
    \/ ImagesUser /\ CancelDeleteFolder
    \/ ImagesUser /\ ConfirmDeleteFolder
    \/ ImagesUser /\ PressEscape
    \/ Auto /\ \E t \in TasksOf("deleteFolder") :
                  \E r \in {"ok", "empty", "notfound", "error"} : DeleteFolderListed(t, r)
    \/ Auto /\ \E t \in TasksOf("deleteFolder") :
                  \E r \in {"ok", "notfound", "error"} : DeleteFolderStep(t, r)
    \/ ImagesUser /\ \E f \in Range(folders) : SelectFolder(f)
    \/ Auto /\ \E t \in TasksOf("loadFolders") : \E r \in {"ok", "error"} : LoadFoldersDone(t, r)
    \/ Auto /\ \E t \in TasksOf("loadImages") :
                  \E r \in {"ok", "notfound", "error"} : LoadImagesListed(t, r)
    \/ Auto /\ \E t \in TasksOf("loadImages") :
                  \E failed \in SUBSET ImageNames(t.data) : LoadImagesDated(t, failed)

SpecImages == InitImages /\ [][ImagesNext]_vars

(***************************************************************************)
(* The controls of the gallery: sort order, pages and the viewer, over the *)
(* image lists a listing can give.                                         *)
(***************************************************************************)
PageNames == [i \in 1..20 |-> FileNameOrder[i + 5]]

\* A repository whose folder a holds k images, committed on three dates.
PageTree(k) ==
    {MkFile(<<"a">>, ".gitkeep", EmptySha, 1)}
        \cup {MkFile(<<"a">>, PageNames[i], 10 + i, ((2 * i) % 3) + 1) : i \in 1..k}

SortNamesOfModel == {"B.jpg", "a.jpg", "b.png"}

\* The repositories whose folder a holds some of three images, each with
\* any commit date: equal dates and distinct ones.
SortTrees ==
    UNION {{ {MkFile(<<"a">>, n, FileIndex(n), d[n]) : n \in names} :
                 d \in [names -> 1..MaxDate]} :
           names \in (SUBSET SortNamesOfModel) \ {{}}}

ViewTrees == {PageTree(k) : k \in 0..MaxImages} \cup SortTrees

InitView ==
    /\ tree \in ViewTrees
    /\ ops = 0
    /\ LoggedIn
    /\ last = Step("init", "ok", <<>>)

ViewUser == ops < MaxViewOps /\ ops' = ops + 1

ViewNext ==
    \/ ViewUser /\ \E o \in SortOrders : SetSortOrder(o)
    \/ ViewUser /\ NextPage
    \/ ViewUser /\ PrevPage
    \/ ViewUser /\ \E img \in Range(images) : ImageClick(img)
    \/ ViewUser /\ NextImage
    \/ ViewUser /\ PrevImage
    \/ ViewUser /\ CloseModal
    \/ ViewUser /\ PressEscape

SpecView == InitView /\ [][ViewNext]_vars

(***************************************************************************)
(* Folder names typed into the form of the sidebar.                        *)
(***************************************************************************)
\* The characters of the typed names: letters of both cases, a digit, the
\* hyphen, a space, punctuation, precomposed accented letters, the d with
\* stroke and a combining mark on its own.
NameAlphabet ==
    {"K", "a", "1", "-", " ", "!", "y_grave", "E_grave", "Dstroke", "comb_hook"}

\* "Kỳ Nghỉ Hè!!"
KyNghiHe ==
    <<"K", "y_grave", " ", "N", "g", "h", "i_hook", " ", "H", "e_grave", "!", "!">>

TypedNames == UNION {[1..n -> NameAlphabet] : n \in 0..MaxNameLen} \cup {KyNghiHe}

NamesUser == ops < MaxNameOps /\ ops' = ops + 1

NamesNext ==
    \/ NamesUser /\ \E raw \in TypedNames : AddFolder(raw)
    \/ Auto /\ \E t \in TasksOf("addFolder") : \E r \in {"ok", "error"} : AddFolderDone(t, r)
    \/ Auto /\ \E t \in TasksOf("loadFolders") : \E r \in {"ok", "error"} : LoadFoldersDone(t, r)
    \/ Auto /\ \E t \in TasksOf("loadImages") :
                  \E r \in {"ok", "notfound", "error"} : LoadImagesListed(t, r)

SpecNames == InitFolders /\ [][NamesNext]_vars

(***************************************************************************)
(* Pages, folder changes and uploads over a folder of more than one page.  *)
(***************************************************************************)
\* Folder a holds 16 images, folder b one.
ReloadTree == PageTree(IMAGES_PER_PAGE + 1) \cup {MkFile(<<"b">>, "b.png", 2, 2)}

InitReload ==
    /\ tree = ReloadTree
    /\ ops = 0
    /\ LoggedIn
    /\ last = Step("init", "ok", <<>>)

ReloadUser == ops < MaxReloadOps /\ ops' = ops + 1

ReloadNext ==
    \/ ReloadUser /\ NextPage
    \/ ReloadUser /\ PrevPage
    \/ ReloadUser /\ \E f \in Range(folders) : SelectFolder(f)
    \/ ReloadUser /\ \E f \in UploadChoices : Upload({f})
    \/ Auto /\ \E t \in TasksOf("upload") :
                  \E f \in t.pending : \E r \in {"ok", "error"} : UploadFileDone(t, f, r)
    \/ Auto /\ \E t \in TasksOf("loadFolders") : \E r \in {"ok", "error"} : LoadFoldersDone(t, r)
    \/ Auto /\ \E t \in TasksOf("loadImages") :
                  \E r \in {"ok", "notfound", "error"} : LoadImagesListed(t, r)
    \/ Auto /\ \E t \in TasksOf("loadImages") :
                  \E failed \in {{}, ImageNames(t.data)} : LoadImagesDated(t, failed)

SpecReload == InitReload /\ [][ReloadNext]_vars

(***************************************************************************)
(* One delete or one rename at a time of a folder of three files.          *)
(***************************************************************************)
LoopUser == ops < MaxLoopOps /\ ops' = ops + 1

LoopNext ==
    \/ LoopUser /\ \E f \in Range(folders) : RequestDeleteFolder(f)
    \/ LoopUser /\ NoFolderWrite /\ ConfirmDeleteFolder
    \/ Auto /\ \E t \in TasksOf("deleteFolder") :
                  \E r \in {"ok", "empty", "notfound", "error"} : DeleteFolderListed(t, r)
    \/ Auto /\ \E t \in TasksOf("deleteFolder") :
                  \E r \in {"ok", "notfound", "error"} : DeleteFolderStep(t, r)
    \/ LoopUser /\ \E f \in Range(folders) : StartRename(f)
    \/ LoopUser /\ \E raw \in RawNames : TypeNewFolderName(raw)
    \/ LoopUser /\ NoFolderWrite /\ FinishRename
    \/ Auto /\ \E t \in TasksOf("rename") :
                  \E r \in {"ok", "empty", "notfound", "error"} : RenameListed(t, r)
    \/ Auto /\ \E t \in TasksOf("rename") :
                  \E r \in {"ok", "notfound", "error"} : RenameStep(t, r)
    \/ Auto /\ \E t \in TasksOf("loadFolders") : \E r \in {"ok", "error"} : LoadFoldersDone(t, r)
    \/ Auto /\ \E t \in TasksOf("loadImages") :
                  \E r \in {"ok", "notfound", "error"} : LoadImagesListed(t, r)
    \/ Auto /\ \E t \in TasksOf("loadImages") :
                  \E failed \in {{}, ImageNames(t.data)} : LoadImagesDated(t, failed)

SpecLoops == InitImages /\ [][LoopNext]_vars

(***************************************************************************)
(* The gallery of a folder of two pages: pages, sort order, viewer, image  *)
(* delete and folder change.                                               *)
(***************************************************************************)
\* Folder a holds sixteen images, three or one.
InitGallery ==
    /\ tree \in {ReloadTree, ImagesTree, InitTree}
    /\ ops = 0
    /\ LoggedIn
    /\ last = Step("init", "ok", <<>>)

GalleryUser == ops < MaxGalleryOps /\ ops' = ops + 1

GalleryNext ==
    \/ GalleryUser /\ \E o \in SortOrders : SetSortOrder(o)
    \/ GalleryUser /\ NextPage
    \/ GalleryUser /\ PrevPage
    \/ GalleryUser /\ \E img \in Range(images) : ImageClick(img)
    \/ GalleryUser /\ NextImage
    \/ GalleryUser /\ PrevImage
    \/ GalleryUser /\ CloseModal
    \/ GalleryUser /\ \E img \in Range(images) : RequestDeleteImage(img)
    \/ GalleryUser /\ CancelDeleteImage
    \/ GalleryUser /\ ConfirmDeleteImage
    \/ Auto /\ \E t \in TasksOf("deleteImage") :
                  \E r \in {"ok", "error"} : DeleteImageDone(t, r)
    \/ GalleryUser /\ \E f \in Range(folders) : SelectFolder(f)
    \/ Auto /\ \E t \in TasksOf("loadFolders") : \E r \in {"ok", "error"} : LoadFoldersDone(t, r)
    \/ Auto /\ \E t \in TasksOf("loadImages") :
                  \E r \in {"ok", "notfound", "error"} : LoadImagesListed(t, r)
    \/ Auto /\ \E t \in TasksOf("loadImages") : LoadImagesDated(t, {})

SpecGallery == InitGallery /\ [][GalleryNext]_vars

-----------------------------------------------------------------------------
\* Properties of the session.

\* The number of validations of stored credentials in flight.
Validations(tk) ==
    BagCardinality([x \in {y \in DOMAIN tk : y.kind = "validate"} |-> tk[x]])

\* The full-screen loader of line 615.
LoaderView == isLoading /\ ~isAuthenticated

\* C10: at startup, when a token and a repository are both stored, exactly
\* one validation request is issued with them; when it succeeds the
\* application is authenticated with those credentials, when it fails both
\* are removed from storage, a login error is set and the application is not
\* authenticated; when either is absent no request is issued and the login
\* view is shown; in each case the initial loader ends.
C10_Startup ==
    [][ /\ (last'.op = "mount" /\ storage.token # Null /\ storage.repo # Null)
            => /\ tasks' = Spawn(tasks, [kind |-> "validate", token |-> storage.token,
                                                              repo |-> storage.repo])
               /\ Validations(tasks') = 1
        /\ (last'.op = "mount" /\ (storage.token = Null \/ storage.repo = Null))
            => /\ tasks' = tasks
               /\ LoginView'
               /\ ~LoaderView'
        /\ last'.op # "mount" => Validations(tasks') <= Validations(tasks)
        /\ (last'.op = "validate" /\ last'.res = "ok")
            => /\ isAuthenticated'
               /\ config' = [token |-> storage.token, repo |-> storage.repo]
               /\ storage' = storage
               /\ ~LoaderView'
        /\ (last'.op = "validate" /\ last'.res # "ok")
            => /\ storage' = NoStorage
               /\ loginError' # Null
               /\ ~isAuthenticated'
               /\ LoginView'
               /\ ~LoaderView'
      ]_vars

\* The validation of the stored credentials failed: they are gone and the
\* login view shows the error.
C10_Witness ==
    /\ last.op = "validate" /\ last.res = "error"
    /\ storage = NoStorage /\ loginError # Null /\ LoginView

\* C9: a login writes the submitted credentials to storage and authenticates
\* only when its validation request has succeeded; when the request fails
\* nothing is written, the user stays unauthenticated and a login error is
\* set.
C9_Login ==
    [][ /\ (last'.op = "login" /\ last'.res = "submit")
            => storage' = storage /\ isAuthenticated' = isAuthenticated
        /\ (last'.op = "login" /\ last'.res = "ok")
            => /\ storage' = [token |-> last'.task.token, repo |-> last'.task.repo]
               /\ config' = [token |-> last'.task.token, repo |-> last'.task.repo]
               /\ isAuthenticated'
        /\ (last'.op = "login" /\ last'.res = "error")
            => /\ storage' = storage
               /\ ~isAuthenticated'
               /\ loginError' # Null
        /\ (storage' # storage /\ storage' # NoStorage)
            => last'.op = "login" /\ last'.res = "ok"
        /\ (isAuthenticated' /\ ~isAuthenticated)
            => last'.op \in {"login", "validate"} /\ last'.res = "ok"
      ]_vars

\* A login was refused: nothing is stored, nobody is authenticated.
C9_Witness ==
    /\ last.op = "login" /\ last.res = "error"
    /\ storage = NoStorage /\ ~isAuthenticated /\ loginError = "loginFailed"

\* Nothing of a session is left, in storage or in memory.
Cleared ==
    /\ storage = NoStorage
    /\ config = NoConfig
    /\ folders = <<>>
    /\ images = <<>>
    /\ activeFolder = None

\* C8: a logout leaves nothing of the session in storage or in memory, and
\* nothing of it comes back before the next successful login, whatever
\* request issued before the logout is answered after it.
C8_LogoutClears ==
    [][ /\ last'.op = "logout" => Cleared' /\ ~isAuthenticated'
        /\ (Cleared /\ ~isAuthenticated /\ ~(last'.op = "login" /\ last'.res = "ok"))
            => Cleared'
      ]_vars

-----------------------------------------------------------------------------
\* Properties of the folder operations.

\* Step l is one of handleAddFolder or handleFinishRename up to its first
\* await.
NameRequest(l) == l.op \in {"addFolder", "finishRename"} /\ l.res \in {"noop", "exists", "start"}

\* The sanitized form of the name that step asked for.
RequestedName(l) == sanitizeFolderName(Trim(l.task))

\* The name is one of the local folder list.
InFolderList(name) == \E i \in 1..Len(folders) : folders[i] = name

\* The step called nothing and changed neither the folder list nor the remote.
Untouched == tasks' = tasks /\ folders' = folders /\ tree' = tree

\* C1 as the specification states it: a create or a rename whose sanitized
\* requested name is already in the local folder list shows an error
\* notification, calls nothing and changes neither the folder list nor the
\* remote tree.
C1_NameCollision ==
    [][ (NameRequest(last') /\ InFolderList(RequestedName(last')))
            => notification'.type = "error" /\ Untouched
      ]_vars

\* The request reaches the collision check of line 401 or line 481: a create
\* of a name that is not blank; a rename, of a folder whose name is not the
\* empty string, to a sanitized name that is neither empty nor the folder's
\* own.
ReachesCollisionCheck(l) ==
    \/ l.op = "addFolder" /\ Trim(l.task) # <<>>
    \/ /\ l.op = "finishRename"
       /\ l.name # <<>>
       /\ RequestedName(l) # <<>>
       /\ RequestedName(l) # l.name

\* C1, amended: a create of a non-blank name, or a rename of a folder with a
\* non-empty name to a sanitized name that is not empty and differs from the
\* folder's current name, with the sanitized name already in the local
\* folder list, shows an error notification, calls nothing and changes
\* neither the folder list nor the remote tree; a blank create, a rename of
\* the folder whose name is empty, an empty rename and a rename to the
\* unchanged name show no notification, call nothing and change nothing.
C1_NameCollisionChecked ==
    [][ /\ (NameRequest(last') /\ ReachesCollisionCheck(last')
                                /\ InFolderList(RequestedName(last')))
            => notification'.type = "error" /\ Untouched
        /\ (NameRequest(last') /\ ~ReachesCollisionCheck(last'))
            => notification' = notification /\ Untouched
      ]_vars

\* A rename to the name of another folder was refused.
C1_Witness ==
    /\ last.op = "finishRename" /\ last.res = "exists"
    /\ RequestedName(last) # last.name /\ InFolderList(RequestedName(last))
    /\ notification = showNotification("folderExists", "error")

\* Every file the rename listed lies in the source or in the destination.
NoListedFileLost(t) ==
    \A i \in 1..Len(t.listed) :
        HasFile(tree, t.old, t.listed[i].name) \/ HasFile(tree, t.new, t.listed[i].name)

\* C2: a rename creates the copy of a file after it has fetched the file's
\* content and deletes the source file after the creation of its copy has
\* succeeded; in every state of a rename, and in the state a failure leaves,
\* every listed file lies in the source or in the destination folder.
C2_RenameOrder ==
    /\ \A t \in TasksOf("rename") :
          /\ t.pc = "put" => Head(t.files).name \in t.fetched
          /\ t.pc = "del" => Head(t.files).name \in t.created
          /\ t.created \subseteq t.fetched
          /\ NoListedFileLost(t)
    /\ last.op = "rename" => NoListedFileLost(last.task)

\* A rename has moved the two files of a folder: both lie in the destination
\* and none in the source.
C2_Witness ==
    /\ last.op = "rename" /\ last.res = "done"
    /\ Len(last.task.listed) = 2
    /\ \A i \in 1..2 : /\ HasFile(tree, last.task.new, last.task.listed[i].name)
                        /\ ~HasFile(tree, last.task.old, last.task.listed[i].name)

\* C5: when a call of a rename fails, an error notification is shown and no
\* success notification, the local folder list is not renamed, the folder
\* list is reloaded from the remote, no further call of the rename is made
\* and what the rename has created or deleted stays as it is.
C5_RenameFailure ==
    [][ (last'.op = "rename" /\ last'.res \in {"error", "notfound"})
            => /\ notification' = showNotification("renameFailed", "error")
               /\ folders' = folders
               /\ tree' = tree
               /\ tasks' = Spawn(Retire(tasks, last'.task),
                                 LoadFoldersTask(last'.task.act))
               /\ \A n \in last'.task.created : HasFile(tree', last'.task.new, n)
      ]_vars

\* A rename failed after it had created a copy: the copy is still there, the
\* list still holds the old name and is being reloaded.
C5_Witness ==
    /\ last.op = "rename" /\ last.res = "error"
    /\ last.task.created # {}
    /\ \A n \in last.task.created : HasFile(tree, last.task.new, n)
    /\ Includes(folders, last.task.old) /\ ~Includes(folders, last.task.new)
    /\ TasksOf("loadFolders") # {}
    /\ notification.type = "error"

\* C3: when the DELETE of a file fails in the loop of a folder delete,
\* whatever the remote's message is, an error notification is shown and no
\* success notification, the folder stays in the local folder list and the
\* files deleted before stay deleted; the folder is treated as already empty
\* only when the listing is answered not found.
C3_DeleteFailure ==
    [][ /\ (last'.op = "deleteFolder" /\ last'.res \in {"error", "notfound"}
                                       /\ last'.task.pc = "loop")
            => /\ notification'.type = "error"
               /\ folders' = folders
               /\ tree' = tree
        /\ (last'.op = "deleteFolder" /\ last'.res \in {"error", "notfound", "empty", "done"}
                /\ notification' = showNotification("emptyFolderDeleted", "success"))
            => last'.task.pc = "list" /\ last'.res = "notfound"
      ]_vars

\* The folder deletes in flight.
Deletes(tk) == [x \in {y \in DOMAIN tk : y.kind = "deleteFolder"} |-> tk[x]]

\* C4: when the listing of a folder delete is answered not found, the folder
\* is removed from the local folder list, the success notification of an
\* empty folder is shown, no DELETE is issued, and when the removed folder
\* was the active one the active folder becomes the first remaining folder,
\* or none.
C4_DeleteNotFound ==
    [][ (last'.op = "deleteFolder" /\ last'.res = "notfound" /\ last'.task.pc = "list")
            => /\ ~Includes(folders', last'.name)
               /\ notification' = showNotification("emptyFolderDeleted", "success")
               /\ tree' = tree
               /\ Deletes(tasks') = Deletes(Retire(tasks, last'.task))
               /\ activeFolder = Some(last'.name)
                    => activeFolder' = IF Len(folders') > 0 THEN Some(folders'[1])
                                       ELSE None
      ]_vars

-----------------------------------------------------------------------------
\* Properties of the upload.

\* An upload batch has settled in the step that led to this state.
Settled == last.op = "upload" /\ last.res = "settled"

\* What C6 says of the notification, and of the PUT calls being one a file.
CountsRight(t) ==
    /\ t.puts = Cardinality(t.issued)
    /\ t.created \subseteq t.issued
    /\ t.successfulUploads = Cardinality(t.created)
    /\ t.created # {}
         => notification = showCount("uploaded", "success", Cardinality(t.created))

\* C6 as the specification states it: a batch issues exactly one PUT for
\* each file whose name is not the name of a loaded image and none for a file
\* whose name is, whatever the other PUTs are answered, and the success
\* notification tells the number of PUTs that succeeded.
C6_CreateCalls ==
    Settled => /\ \A f \in last.task.batch :
                     f \in last.task.issued <=> f.name \notin last.task.names
               /\ CountsRight(last.task)

\* C6, amended: a batch issues exactly one PUT for each file whose name is
\* not the name of a loaded image and whose content could be read, none for a
\* file whose name is the name of a loaded image and none for a file that
\* could not be read, whatever the other PUTs are answered, and the success
\* notification tells the number of PUTs that succeeded.
C6_CreateCallsOfReadFiles ==
    Settled => /\ \A f \in last.task.batch :
                     /\ f.name \in last.task.names => f \notin last.task.issued
                     /\ f.name \notin last.task.names
                          => (f \in last.task.issued <=> f \notin last.task.unreadable)
               /\ CountsRight(last.task)

\* A batch of three files of which one has the name of a loaded image, with
\* no failure: two PUTs, and the notification says two.
C6_Witness ==
    /\ Settled
    /\ Cardinality(last.task.batch) = 3
    /\ Cardinality({f \in last.task.batch : f.name \in last.task.names}) = 1
    /\ last.task.puts = 2
    /\ notification = showCount("uploaded", "success", 2)

\* The listings of the images of one folder that have been started and not
\* yet answered.
Reloads(tk, fo) == CopiesIn(LoadImagesTask(fo), tk)

\* C7: when a batch has settled with a file created, the images of the
\* folder that is active at that moment are loaded again from the remote;
\* when it has settled with no file created, no listing is started and the
\* image list is unchanged.
C7_ReloadActive ==
    [][ (last'.op = "upload" /\ last'.res = "settled")
            => IF last'.task.created # {}
               THEN /\ ~Falsy(activeFolder')
                    /\ Reloads(tasks', activeFolder'[1]) = Reloads(tasks, activeFolder'[1]) + 1
               ELSE /\ \A fo \in Range(folders) : Reloads(tasks', fo) = Reloads(tasks, fo)
                    /\ images' = images
      ]_vars

-----------------------------------------------------------------------------
\* Properties of the gallery.

\* C11: in image listing, a per-image history lookup that fails or comes
\* back empty gives that image the epoch timestamp, leaves every other image
\* with the date of its own last commit and raises no notification; a
\* failure of the primary listing call leaves the image list empty and
\* raises no notification; every end of a listing leaves the loading flag
\* cleared and every listed image with a commit date.
C11_ListingFailures ==
    [][last'.op = "loadImages" =>
          /\ last'.res \in {"error", "notfound"} =>
                 images' = <<>> /\ notification' = notification /\ ~isLoading'
          /\ last'.res = "dated" =>
                 LET t == last'.task
                 IN /\ Len(images') = Len(t.data)
                    /\ \A i \in 1..Len(t.data) :
                           /\ images'[i].name = t.data[i].name
                           /\ images'[i].sha = t.data[i].sha
                           /\ t.data[i].name \in t.failed => images'[i].commitDate = Epoch
                           /\ t.data[i].name \notin t.failed =>
                                  images'[i].commitDate = LastCommitDate(tree, t.data[i])
                    /\ notification' = notification
                    /\ ~isLoading'
          /\ last'.res = "ok" =>
                 \/ \E u \in BagToSet(tasks') : u.kind = "loadImages" /\ u.pc = "dates"
                 \/ images' = <<>> /\ ~isLoading'
          /\ \A i \in 1..Len(images') : images'[i].commitDate \in Nat]_vars

\* A listing of several images ended where one lookup failed and another
\* answered.
C11_Witness ==
    /\ last.op = "loadImages" /\ last.res = "dated"
    /\ last.task.failed # {}
    /\ \E i, j \in 1..Len(images) :
           /\ images[i].name \in last.task.failed /\ images[i].commitDate = Epoch
           /\ images[j].name \notin last.task.failed /\ images[j].commitDate # Epoch
    /\ ~isLoading

\* The images of imgs other than the image of path folder/name.
OtherImages(imgs, image) ==
    SelectSeq(imgs, LAMBDA img : ~(img.folder = image.folder /\ img.name = image.name))

\* C12: image delete issues one remote delete call carrying the image's
\* content hash; on success exactly that image leaves the local image list
\* and every other image stays, also one with the same content hash but
\* another name, and no listing is requested; on failure the local image
\* list is unchanged and an error notification is shown.
C12_DeleteImage ==
    [][last'.op = "deleteImage" =>
          IF last'.res = "start"
          THEN /\ BagCardinality(tasks') = BagCardinality(tasks) + 1
               /\ \E t \in BagToSet(tasks') :
                      t.kind = "deleteImage" /\ t.image = last'.task /\ t.image.sha = last'.task.sha
               /\ images' = images /\ tree' = tree
          ELSE /\ tasks' = Retire(tasks, last'.task)
               /\ IF last'.res = "ok"
                  THEN /\ tree' = tree \ {f \in tree : /\ f.folder = last'.task.image.folder
                                                      /\ f.name = last'.task.image.name
                                                      /\ f.sha = last'.task.image.sha}
                       /\ images' = OtherImages(images, last'.task.image)
                  ELSE /\ tree' = tree
                       /\ images' = images
                       /\ notification'.type = "error"]_vars

\* Pages 1..p of the sorted list, one behind the other.
RECURSIVE ConcatPages(_)
ConcatPages(p) ==
    IF p = 0 THEN <<>> ELSE ConcatPages(p - 1) \o PageOf(sortedImages, p)

\* C13: for an image list of length n and page size 15, the page count is
\* the least number of pages of 15 that hold n images, ceil(n / 15), and the
\* pages 1..pageCount one behind the other are the sorted list, no image
\* lost or duplicated; 16 images make 2 pages of 15 and 1 images.
C13_Pagination ==
    LET n == Len(sortedImages)
    IN /\ totalPages \in Nat
       /\ totalPages * 15 >= n
       /\ totalPages > 0 => (totalPages - 1) * 15 < n
       /\ ConcatPages(totalPages) = sortedImages
       /\ \A p \in 1..totalPages : PageOf(sortedImages, p) # <<>>
       /\ n = 16 => /\ totalPages = 2
                    /\ Len(PageOf(sortedImages, 1)) = 15
                    /\ Len(PageOf(sortedImages, 2)) = 1

\* The second page of 16 images is shown, in an order that is not the
\* order of the listing.
C13_Witness ==
    /\ Len(images) = 16
    /\ sortedImages # images
    /\ currentPage = 2
    /\ Len(paginatedImages) = 1
    /\ last.op = "page"

Reverse(s) == [i \in 1..Len(s) |-> s[Len(s) + 1 - i]]

DatesOf(s) == [i \in 1..Len(s) |-> s[i].commitDate]

DistinctDates(s) == \A i, j \in 1..Len(s) : i # j => s[i].commitDate # s[j].commitDate

\* C14, as stated: for every image list, also one where several images
\* have the same commit date, the list sorted with date-desc is the reverse
\* of the list sorted with date-asc.
C14_DateReverse ==
    Sorted(images, "date-desc") = Reverse(Sorted(images, "date-asc"))

\* C14, amended: the list sorted with date-desc is the reverse of the list
\* sorted with date-asc when no two images have the same commit date; in
\* every list the commit dates read in date-desc order are the reverse of
\* the commit dates read in date-asc order.
C14_DateReverseDistinct ==
    /\ DistinctDates(images) =>
           Sorted(images, "date-desc") = Reverse(Sorted(images, "date-asc"))
    /\ DatesOf(Sorted(images, "date-desc")) = Reverse(DatesOf(Sorted(images, "date-asc")))

\* Three images of three commit dates are shown oldest first, which is not
\* the order of the listing.
C14_Witness ==
    /\ Len(images) = 3
    /\ DistinctDates(images)
    /\ sortOrder = "date-asc"
    /\ sortedImages # images
    /\ sortedImages = Reverse(Sorted(images, "date-desc"))

\* The key of image x in order o is not behind the key of image y.
KeyOrdered(o, x, y) ==
    CASE o = "name-asc" -> LocaleIndex(x.name) <= LocaleIndex(y.name)
      [] o = "name-desc" -> LocaleIndex(x.name) >= LocaleIndex(y.name)
      [] o = "date-asc" -> x.commitDate <= y.commitDate
      [] o = "date-desc" -> x.commitDate >= y.commitDate

\* The place of image x in the list s.
PlaceIn(s, x) == CHOOSE i \in 1..Len(s) : s[i] = x

NamesOf(s) == [i \in 1..Len(s) |-> s[i].name]

\* C15: for each of the four sort orders the sorted list is a permutation
\* of the fetched list, ordered by the key of the order; images with equal
\* keys keep their fetched order; sorting the sorted list again changes
\* nothing; and an order that is none of the four sorts as date-desc does.
\* The listing [B.jpg at T1, a.jpg at T2] with T2 > T1 gives [a.jpg, B.jpg]
\* with name-asc and with date-desc.
C15_SortOrders ==
    /\ \A o \in SortOrders :
           LET s == Sorted(images, o)
           IN /\ Len(s) = Len(images)
              /\ Range(s) = Range(images)
              /\ \A i, j \in 1..Len(s) :
                     i < j =>
                         /\ KeyOrdered(o, s[i], s[j])
                         /\ KeyOrdered(o, s[j], s[i]) =>
                                PlaceIn(images, s[i]) < PlaceIn(images, s[j])
              /\ Sorted(s, o) = s
    /\ Sorted(images, "unknown") = Sorted(images, "date-desc")
    /\ (/\ NamesOf(images) = <<"B.jpg", "a.jpg">>
        /\ images[1].commitDate < images[2].commitDate) =>
           /\ NamesOf(Sorted(images, "name-asc")) = <<"a.jpg", "B.jpg">>
           /\ NamesOf(Sorted(images, "date-desc")) = <<"a.jpg", "B.jpg">>

\* The listing [B.jpg at T1, a.jpg at T2] is shown by name.
C15_Witness ==
    /\ NamesOf(images) = <<"B.jpg", "a.jpg">>
    /\ images[1].commitDate < images[2].commitDate
    /\ sortOrder = "name-asc"
    /\ NamesOf(sortedImages) = <<"a.jpg", "B.jpg">>
    /\ last.op = "sort"

\* The index is one of the sorted list of the images.
ValidIndex(i, n) == i \in 0..(n - 1)

\* C19: in the viewer over a sorted list of n images, next moves the
\* selected index from i to i+1 only when i < n-1 and previous from i to i-1
\* only when i > 0; at the last image next changes nothing and at the first
\* previous changes nothing; so navigation leaves an index of 0..n-1 in
\* 0..n-1; close, and Escape, set the selection to none.
C19_ViewerBounds ==
    [][/\ (last'.op = "viewer" /\ last'.res \in {"next", "prev"}) =>
              /\ selectedImageIndex # None /\ selectedImageIndex' # None
              /\ LET i == selectedImageIndex[1]
                     j == selectedImageIndex'[1]
                     n == Len(sortedImages)
                 IN /\ last'.res = "next" =>
                           /\ j \in {i, i + 1}
                           /\ j = i + 1 <=> i < n - 1
                           /\ i = n - 1 => j = i
                    /\ last'.res = "prev" =>
                           /\ j \in {i, i - 1}
                           /\ j = i - 1 <=> i > 0
                           /\ i = 0 => j = i
                    /\ ValidIndex(i, n) => ValidIndex(j, n)
                    /\ images' = images /\ sortOrder' = sortOrder
       /\ (last'.op = "viewer" /\ last'.res = "close") => selectedImageIndex' = None
       /\ last'.op = "escape" => selectedImageIndex' = None]_vars

\* Next was pressed in a viewer over several images, and the last image is
\* selected.
C19_Witness ==
    /\ last.op = "viewer" /\ last.res = "next"
    /\ Len(sortedImages) >= 2
    /\ selectedImageIndex = Some(Len(sortedImages) - 1)

\* The folder deletes and image deletes in flight.
DeleteOps(tk) ==
    BagCardinality([x \in {y \in DOMAIN tk : y.kind \in {"deleteFolder", "deleteImage"}}
                       |-> tk[x]])

\* C20: a folder delete or an image delete is started, and so its remote
\* delete calls are issued, only by confirming the dialog that is open for
\* that target; dismissing a dialog (cancel, overlay or Escape) clears the
\* pending target, starts nothing and changes neither list nor the remote;
\* confirming clears the pending target and starts one operation.
C20_ConfirmFirst ==
    [][/\ DeleteOps(tasks') > DeleteOps(tasks) =>
              /\ DeleteOps(tasks') = DeleteOps(tasks) + 1
              /\ last'.op \in {"deleteFolder", "deleteImage"} /\ last'.res = "start"
              /\ last'.op = "deleteFolder" =>
                     /\ folderToDelete # None /\ folderToDelete' = None
                     /\ tasks' = Spawn(tasks, [kind |-> "deleteFolder",
                                               name |-> folderToDelete[1],
                                               folders |-> folders, act |-> activeFolder,
                                               pc |-> "list", files |-> <<>>])
              /\ last'.op = "deleteImage" =>
                     /\ imageToDelete # None /\ imageToDelete' = None
                     /\ tasks' = Spawn(tasks, [kind |-> "deleteImage",
                                               image |-> imageToDelete[1]])
              /\ tree' = tree
       /\ (last'.op \in {"deleteFolder", "deleteImage"} /\ last'.res = "start") =>
              DeleteOps(tasks') = DeleteOps(tasks) + 1
       /\ tree' # tree =>
              /\ last'.op \in {"deleteFolder", "deleteImage"}
              /\ last'.task \in BagToSet(tasks)
              /\ last'.op = "deleteFolder" =>
                     \A f \in tree \ tree' : f.folder = last'.task.name
              /\ last'.op = "deleteImage" =>
                     \A f \in tree \ tree' : /\ f.folder = last'.task.image.folder
                                             /\ f.name = last'.task.image.name
       /\ last'.op \in {"cancelDeleteFolder", "cancelDeleteImage", "escape"} =>
              /\ last'.op = "cancelDeleteFolder" => folderToDelete' = None
              /\ last'.op = "cancelDeleteImage" => imageToDelete' = None
              /\ last'.op = "escape" => Falsy(folderToDelete') /\ imageToDelete' = None
              /\ tasks' = tasks /\ tree' = tree
              /\ folders' = folders /\ images' = images]_vars

\* An image delete that was confirmed has removed the file from the remote,
\* and no target is pending.
C20_Witness ==
    /\ last.op = "deleteImage" /\ last.res = "ok"
    /\ ~HasFile(tree, last.task.image.folder, last.task.image.name)
    /\ imageToDelete = None /\ folderToDelete = None

\* The folders of the remote and of the local list.
KnownFolders == {f.folder : f \in tree} \cup Range(folders)

\* The step taken started a listing of the images of folder fo.
ListingStarted(fo) ==
    CopiesIn(LoadImagesTask(fo), tasks') > CopiesIn(LoadImagesTask(fo), tasks)

\* C18: every start of a listing of images, the one after an upload
\* included, sets the page cursor to 1 and empties the image list, and every
\* change of the active folder to a folder starts such a listing; images
\* are shown anew only when a listing that was started ends, so the cursor
\* was set to 1 before.  A change of the active folder to none shows no
\* images.
C18_PageReset ==
    [][/\ \A fo \in KnownFolders :
              ListingStarted(fo) => currentPage' = 1 /\ images' = <<>>
       /\ activeFolder' # activeFolder =>
              IF Falsy(activeFolder') \/ config' = NoConfig
              THEN images' = <<>> \/ ~isAuthenticated'
              ELSE ListingStarted(activeFolder'[1]) /\ currentPage' = 1
       /\ (last'.op = "upload" /\ last'.res = "settled"
             /\ last'.task.successfulUploads > 0) =>
              ListingStarted(last'.task.folder) /\ currentPage' = 1
       /\ (images' # images /\ images' # <<>>) =>
              /\ last'.op = "loadImages" /\ last'.res = "dated"
              /\ [last'.task EXCEPT !.failed = {}] \in BagToSet(tasks)]_vars

\* The second page of folder a was shown when folder b was selected: the
\* listing of b is in flight, the cursor is 1 and no image is shown.
C18_Witness ==
    /\ last.op = "select"
    /\ activeFolder = Some(<<"b">>)
    /\ CopiesIn(LoadImagesTask(<<"b">>), tasks) = 1
    /\ currentPage = 1
    /\ images = <<>>
    /\ ops >= 2

-----------------------------------------------------------------------------
\* Properties of folder names.

\* a-z, 0-9 and the hyphen.
SlugChars ==
    {"a", "b", "c", "d", "e", "f", "g", "h", "i", "j", "k", "l", "m", "n", "o", "p",
     "q", "r", "s", "t", "u", "v", "w", "x", "y", "z", "0", "1", "2", "3", "4", "5",
     "6", "7", "8", "9", "-"}

\* The step taken was a submit of the folder form; last.task is what was
\* typed and last.name the name handleAddFolder computed.
Submitted(l) == l.op = "addFolder" /\ l.res \in {"noop", "exists", "start"}

\* C16: for every typed string x, sanitizing the sanitized name again gives
\* the same name, and the sanitized name has only characters of a-z, 0-9
\* and the hyphen; so has the name the form computes from x.
C16_SanitizeIdempotent ==
    Submitted(last) =>
        LET y == sanitizeFolderName(last.task)
        IN /\ sanitizeFolderName(y) = y
           /\ \A i \in 1..Len(y) : y[i] \in SlugChars
           /\ sanitizeFolderName(last.name) = last.name
           /\ \A i \in 1..Len(last.name) : last.name[i] \in SlugChars

\* A name of three characters was typed of which sanitizing keeps one as it
\* is, maps one and removes one, and the folder is being created.
C16_Witness ==
    /\ last.op = "addFolder" /\ last.res = "start"
    /\ Len(last.task) = 3
    /\ Len(last.name) = 2
    /\ last.name # SubSeq(last.task, 1, 2)
    /\ \E t \in TasksOf("addFolder") : t.name = last.name

\* C17, as stated: sanitizeFolderName of "Kỳ Nghỉ Hè!!" is "ky-nghi-he",
\* the words lower-cased, without diacritics and joined by hyphens, the
\* exclamation marks removed.
C17_ScenarioHyphens ==
    (Submitted(last) /\ last.task = KyNghiHe) =>
        last.name = <<"k", "y", "-", "n", "g", "h", "i", "-", "h", "e">>

\* C17, amended: sanitizeFolderName of "Kỳ Nghỉ Hè!!" is "kynghihe", the
\* words lower-cased and without diacritics, the spaces and the exclamation
\* marks removed.
C17_ScenarioJoined ==
    (Submitted(last) /\ last.task = KyNghiHe) =>
        /\ last.name = <<"k", "y", "n", "g", "h", "i", "h", "e">>
        /\ sanitizeFolderName(KyNghiHe) = last.name

\* "Kỳ Nghỉ Hè!!" was submitted and folder kynghihe is being created.
C17_Witness ==
    /\ last.op = "addFolder" /\ last.res = "start"
    /\ last.task = KyNghiHe
    /\ \E t \in TasksOf("addFolder") : t.name = <<"k", "y", "n", "g", "h", "i", "h", "e">>

-----------------------------------------------------------------------------
\* Properties of the loops over the files of a folder.

\* A delete suspended at the call for the head of t.files, or ended by the
\* failure of that call: the files listed before it are gone from the
\* remote, the file itself and the files behind it are there as listed.
DeleteInOrder(t) == t.files = ListFolder(tree, t.name)

\* A rename suspended at a call for file k of its listing, or ended by the
\* failure of that call: files 1..k-1 are copied and deleted, the files
\* behind k are neither fetched, copied nor deleted, and file k is not
\* deleted and is copied exactly when the call is its delete.
RenameInOrder(t) ==
    LET n == Len(t.listed)
        k == n - Len(t.files) + 1
        name(i) == t.listed[i].name
    IN /\ k \in 1..n
       /\ t.files = SubSeq(t.listed, k, n)
       /\ \A i \in 1..(k - 1) :
              name(i) \in t.created /\ ~HasFile(tree, t.old, name(i))
       /\ \A i \in (k + 1)..n :
              /\ name(i) \notin t.fetched \cup t.created
              /\ t.listed[i] \in tree
       /\ t.listed[k] \in tree
       /\ name(k) \in t.created <=> t.pc = "del"
       /\ name(k) \in t.fetched <=> t.pc \in {"put", "del"}

\* C21: within one folder delete or one folder rename the calls for the
\* files are issued one at a time in listing order, the call for the next
\* file after every call for the file before it has succeeded, and after
\* the first failing call the operation issues no further call; so on a
\* failure at file k the files before k are processed, the files behind k
\* are untouched, and in a rename file k is at most copied and not deleted.
C21_OneAtATime ==
    /\ \A t \in TasksOf("deleteFolder") : t.pc = "loop" => DeleteInOrder(t)
    /\ \A t \in TasksOf("rename") : t.pc \in {"get", "put", "del"} => RenameInOrder(t)
    /\ (last.op = "deleteFolder" /\ last.res \in {"error", "notfound"}
          /\ last.task.pc = "loop") =>
           DeleteInOrder(last.task) /\ TasksOf("deleteFolder") = {}
    /\ (last.op = "rename" /\ last.res \in {"error", "notfound"}
          /\ last.task.pc \in {"get", "put", "del"}) =>
           RenameInOrder(last.task) /\ TasksOf("rename") = {}

\* The rename of a folder of three files has failed at the delete of the
\* second: the first is moved, the second is in both folders and the third
\* in the source only.
C21_Witness ==
    /\ last.op = "rename" /\ last.res = "error"
    /\ last.task.pc = "del"
    /\ Len(last.task.listed) = 3 /\ Len(last.task.files) = 2
    /\ ~HasFile(tree, last.task.old, last.task.listed[1].name)
    /\ HasFile(tree, last.task.old, last.task.listed[2].name)
    /\ HasFile(tree, last.task.new, last.task.listed[2].name)
    /\ HasFile(tree, last.task.old, last.task.listed[3].name)
    /\ ~HasFile(tree, last.task.new, last.task.listed[3].name)

-----------------------------------------------------------------------------
\* Properties of overlapping operations.

\* C22: whenever no listing of images is in flight, every image of the
\* local image list lies in the active folder: the list is the result of
\* the listing started last, also when the user selects a folder and then
\* another while the first listing is in flight and the answers arrive in
\* any order.
C22_LatestListing ==
    TasksOf("loadImages") = {} =>
        \A i \in 1..Len(images) : activeFolder = Some(images[i].folder)

\* The step taken ended a listing of the folders with an answer.
Reloaded(l) == l.op = "loadFolders" /\ l.res = "ok"

\* The step taken belongs to a create of, a delete of, or a rename from or
\* to folder f.
OperationOn(l, f) ==
    \/ l.op \in {"addFolder", "deleteFolder"} /\ l.name = f
    \/ l.op = "rename" /\ (l.task.old = f \/ l.task.new = f)

\* C23: the local folder list reflects every folder operation that has
\* completed with success, also when operations overlap: a folder that is
\* absent from the list after its delete stays absent, and a folder that
\* is present after its create stays present, until a reload or an
\* operation on that name; the end of another delete or create, started
\* before and ending after, does not bring it back or take it away.
C23_FoldersReflect ==
    [][\A f \in KnownFolders \cup Range(folders') :
           (f \in Range(folders) <=> f \notin Range(folders')) =>
               Reloaded(last') \/ OperationOn(last', f)]_vars

\* C24: in every state where no operation is in flight, the active folder
\* is none or a name of the local folder list.
C24_ActiveListed ==
    tasks = EmptyBag => activeFolder = None \/ Includes(folders, activeFolder[1])

-----------------------------------------------------------------------------
\* Properties of the names folder create and folder rename accept.

\* A non-empty name of characters a-z, 0-9 and the hyphen.
IsSlug(f) == f # <<>> /\ \A i \in 1..Len(f) : f[i] \in SlugChars

\* The step taken was a submit of the rename input whose typed name
\* sanitizes to the empty name or to the name the folder has.
RenameToNothing(l) ==
    /\ l.op = "finishRename"
    /\ sanitizeFolderName(Trim(l.task)) \in {<<>>, l.name}

\* C27: folder create and folder rename issue no remote call for a name
\* whose sanitized form is empty and add no such name to the local folder
\* list: every name they add is non-empty and made of a-z, 0-9 and the
\* hyphen; a rename to an empty sanitized name or to the unchanged name
\* issues no remote call and changes neither the remote, the folder list
\* nor the active folder.
C27_NoEmptyName ==
    [][/\ \A t \in TasksOf("addFolder") : t.name # <<>>
       /\ \A t \in TasksOf("rename") : t.new # <<>>
       /\ last'.op \in {"addFolder", "rename"} =>
              \A f \in Range(folders') \ Range(folders) : IsSlug(f)
       /\ RenameToNothing(last') =>
              /\ tasks' = tasks /\ tree' = tree
              /\ folders' = folders /\ activeFolder' = activeFolder]_vars

-----------------------------------------------------------------------------
\* Properties of the page cursor and of the viewer.

\* The larger of two numbers.
Max(a, b) == IF a >= b THEN a ELSE b

\* C25: in every state the page cursor is at least 1 and at most
\* max(1, totalPages), with totalPages the images divided by 15 and rounded
\* up; so the page shown has an image whenever the folder has one.
C25_PageInRange ==
    /\ 1 <= currentPage /\ currentPage <= Max(1, totalPages)
    /\ Len(images) > 0 => Len(paginatedImages) > 0

\* C26: whenever the viewer is open the selected index is at least 0 and
\* less than the length of the sorted image list, and after a click on an
\* image it is the place of that image in the sorted list.
C26_ViewerIndexValid ==
    selectedImageIndex # None =>
        /\ ValidIndex(selectedImageIndex[1], Len(sortedImages))
        /\ (last.op = "viewer" /\ last.res = "open") =>
               sortedImages[selectedImageIndex[1] + 1] = last.task

=============================================================================
